---- MODULE Spec2Model ----
(***************************************************************************)
(* A state-machine model of the retrieval pipeline of wh_scraper:          *)
(*   - TextChunker            (vectorization.py)                           *)
(*   - OpenAIEmbeddingClient  (vectorization.py)                           *)
(*   - DocumentRepository     (models.py, the chunk table operations)      *)
(*   - LLMRelevanceJudge      (search.py), with _parse_response and        *)
(*     _extract_judgment also called on their own                          *)
(*   - _sort_results          (web/app.py)                                 *)
(*   - main                   (search.py, the report of a search)          *)
(*   - chunk_documents, embed_pending_chunks, scrape, search and           *)
(*     api_search as the sequence of store queries and network calls       *)
(*     they issue                                                          *)
(*   - embed_pending_chunks and chunk_documents on the chunk table         *)
(*   - the similarities and the judgment counts shown to the user          *)
(* Each component has its own specification (SpecChunker, SpecEmbed,       *)
(* SpecStore, SpecJudge, SpecParse, SpecExtract, SpecSort, SpecCli,        *)
(* SpecRuns, SpecEmbedRuns, SpecEmbedRace, SpecChunkRunsFair, SpecSim)     *)
(* over the shared variables; the variables of the other components stay   *)
(* at their idle values.                                                   *)
(***************************************************************************)
EXTENDS Integers, Sequences, FiniteSets, TLC

VARIABLES
    \* ---- TextChunker -------------------------------------------------
    ch_text,        \* the argument of chunk_text: a sequence of characters
    max_tokens,     \* constructor argument
    overlap_tokens, \* constructor argument
    ch_obj,         \* "none" | "ok" (constructed) | "error" (ValueError raised)
    ch_pc,          \* "idle" | "loop" | "done": position inside chunk_text
    token_ids,      \* local of chunk_text: the encoded stripped text
    start,          \* local of chunk_text: the window start
    chunks,         \* local / return value of chunk_text
    windows,        \* history: the <<start, end>> of every window taken
    \* ---- OpenAIEmbeddingClient --------------------------------------
    em_texts,       \* the argument of embed_in_batches
    batch_size,     \* self.batch_size
    em_pc,          \* "idle" | "loop" | "done"
    em_start,       \* loop variable of embed_in_batches
    em_vectors,     \* local vectors
    em_dimensions,  \* local dimensions
    em_result,      \* the returned EmbeddingBatch, or NoBatch
    em_calls,       \* history: the provider calls embed_in_batches has made
    provider,       \* how the embedding provider answers (see ProviderModes)
    \* ---- DocumentRepository (wh.document_chunks) ---------------------
    rows,           \* the table: a set of row records
    next_id,        \* the serial sequence behind document_chunks.id
    now,            \* the database clock read by NOW()
    last_op,        \* history: the last repository call and its arguments
    search_result,  \* the value returned by the last search_chunks_by_embedding
    \* ---- LLMRelevanceJudge ------------------------------------------
    results,        \* the argument of judge: the candidate sequence
    j_batch_size,   \* self.batch_size of the judge
    j_pc,           \* "idle" | "loop" | "done"
    j_start,        \* loop variable of judge
    enriched,       \* local / return value of judge
    j_replies,      \* history: the reply text of every batch so far
    j_return,       \* how the judge call ended: pending, a value, or an exception
    \* ---- LLMRelevanceJudge._parse_response as a function -------------
    p_text,         \* the argument payload_text
    p_expected,     \* the argument expected
    p_pc,           \* "idle" | "done"
    p_judgments,    \* the returned list of judgments
    \* ---- LLMRelevanceJudge._extract_judgment as a function -----------
    x_entry,        \* the argument entry
    x_pc,           \* "idle" | "done"
    x_judgment,     \* the returned judgment
    \* ---- web/app.py _sort_results as a function ----------------------
    s_results,      \* the argument results
    s_key,          \* the argument sort_key
    s_pc,           \* "idle" | "done"
    s_sorted,       \* the returned list
    \* ---- search.py main: the report of a search ----------------------
    w_advanced,         \* args.advanced
    w_include_rejected, \* args.include_rejected
    w_to_file,          \* args.to_file: "none" | "name" | "blank"
    w_outputs,          \* what search / advanced_search returned
    w_pc,               \* "start" | "no_matches" | "printed" | "written" | "exit_1"
    to_write,           \* the list handed to write_results_to_file
    w_warned,           \* whether LOGGER.warning was called
    \* ---- one run of chunk_documents, embed_pending_chunks, scrape, the
    \* ---- search of main, or one request of api_search ------------------
    r_op,           \* "chunk" | "embed" | "search" | "scrape" | "api"
    r_key,          \* SETTINGS.openai_api_key is set
    r_max,          \* SETTINGS.chunk_max_tokens
    r_overlap,      \* SETTINGS.chunk_overlap_tokens
    r_query,        \* the query of search: "", "q" or "long" (over 200 characters)
    r_pending,      \* how many rows the run's pending-items query returns
    r_pc,           \* position in the run; "done" and "failed" end the function
    r_i,            \* loop index over the pending items
    r_calls,        \* history: the store queries and network calls issued
    r_result,       \* "none", "returned", or the name of the exception
    r_mode,         \* args.advanced of main / the mode of the api_search payload
    r_sort,         \* the sort of the api_search payload
    r_status,       \* what the user gets: the exit status or the HTTP response
    \* ---- the similarities shown for a list of results --------------------
    d_scores,       \* SearchResult.score of every result: the store's distance
    d_shown,        \* which of "web" and "file" have been produced
    d_cosine_score, \* cosine_score of every result in the web payload
    d_header,       \* Max / Min cosine similarity of the report header
    \* ---- the judgment counts of a report header -------------------------
    h_pc,           \* "idle" | "done"
    h_counts,       \* the counts write_results_to_file puts in the header
    \* ---- embed_pending_chunks on the chunk table ------------------------
    e_pc,           \* "idle" | "embedding" | "update" | "done"
    e_limit,        \* the argument limit
    pending_chunks, \* local: what list_chunks_without_embeddings returned
    e_i,            \* how many pairs of the zip have been consumed
    total_updated,  \* local total_updated
    e_returned,     \* the value the last run returned, NullInt before
    e_runs,         \* how many runs have started
    e_before,       \* history: the table as the run's listing read it
    e_written,      \* history: the chunk ids the run has updated
    \* ---- chunk_documents on the documents and the chunk table -----------
    docs,           \* wh.documents: the clean_text of every document
    c_pc,           \* "idle" | "loop"
    c_limit,        \* the argument limit
    c_documents,    \* local documents: the ids listed, in order
    c_i,            \* how many of them the loop has handled
    c_processed     \* local processed

chunkerVars == <<ch_text, max_tokens, overlap_tokens, ch_obj, ch_pc, token_ids,
                 start, chunks, windows>>
embedVars == <<em_texts, batch_size, em_pc, em_start, em_vectors, em_dimensions,
               em_result, em_calls, provider>>
storeVars == <<rows, next_id, now, last_op, search_result>>
judgeVars == <<results, j_batch_size, j_pc, j_start, enriched, j_replies, j_return>>
parseVars == <<p_text, p_expected, p_pc, p_judgments>>
extractVars == <<x_entry, x_pc, x_judgment>>
sortVars == <<s_results, s_key, s_pc, s_sorted>>
cliVars == <<w_advanced, w_include_rejected, w_to_file, w_outputs, w_pc, to_write,
             w_warned>>
runVars == <<r_op, r_key, r_max, r_overlap, r_query, r_pending, r_pc, r_i,
             r_calls, r_result, r_mode, r_sort, r_status>>
simVars == <<d_scores, d_shown, d_cosine_score, d_header>>
headerVars == <<h_pc, h_counts>>
embedRunVars == <<e_pc, e_limit, pending_chunks, e_i, total_updated, e_returned,
                  e_runs, e_before, e_written>>
chunkRunVars == <<docs, c_pc, c_limit, c_documents, c_i, c_processed>>
moreVars == <<simVars, headerVars, embedRunVars, chunkRunVars>>
extraVars == <<parseVars, extractVars, sortVars, cliVars, runVars, moreVars>>
vars == <<chunkerVars, embedVars, storeVars, judgeVars, extraVars>>

\* What a call of one of the functions below leaves alone.
notParseVars == <<chunkerVars, embedVars, storeVars, judgeVars, extractVars,
                  sortVars, cliVars, runVars, moreVars>>
notExtractVars == <<chunkerVars, embedVars, storeVars, judgeVars, parseVars,
                    sortVars, cliVars, runVars, moreVars>>
notSortVars == <<chunkerVars, embedVars, storeVars, judgeVars, parseVars,
                 extractVars, cliVars, runVars, moreVars>>
notCliVars == <<chunkerVars, embedVars, storeVars, judgeVars, parseVars,
                extractVars, sortVars, runVars, moreVars>>
notRunVars == <<chunkerVars, embedVars, storeVars, judgeVars, parseVars,
                extractVars, sortVars, cliVars, moreVars>>
otherVars == <<chunkerVars, judgeVars, parseVars, extractVars, sortVars, cliVars,
               runVars>>
notSimVars == <<otherVars, embedVars, storeVars, headerVars, embedRunVars,
                chunkRunVars>>
notHeaderVars == <<otherVars, embedVars, storeVars, simVars, embedRunVars,
                   chunkRunVars>>
notEmbedRunVars == <<otherVars, simVars, headerVars, chunkRunVars>>
notChunkRunVars == <<otherVars, embedVars, simVars, headerVars, embedRunVars>>

(***************************************************************************)
(* Generic helpers                                                          *)
(***************************************************************************)
Min(a, b) == IF a <= b THEN a ELSE b

\* All sequences over S of length 0..n.
SeqsUpTo(S, n) == UNION {[1..k -> S] : k \in 0..n}

\* Python's seq[a:b] for 0 <= a <= b (0-based, end exclusive).
Slice(s, a, b) == SubSeq(s, a + 1, Min(b, Len(s)))

\* The concatenation of a sequence of sequences (by halves, to keep the
\* evaluation shallow on long inputs).
RECURSIVE Concat(_)
Concat(ss) ==
    IF ss = <<>> THEN <<>>
    ELSE IF Len(ss) = 1 THEN ss[1]
    ELSE LET h == Len(ss) \div 2
         IN  Concat(SubSeq(ss, 1, h)) \o Concat(SubSeq(ss, h + 1, Len(ss)))

(***************************************************************************)
(* Bounds of the model                                                      *)
(***************************************************************************)
MaxTextLen == 5
MaxTokens == 3

(***************************************************************************)
(*                              TextChunker                                 *)
(***************************************************************************)
Letters == {"a", "b"}
Whitespace == {" "}
Chars == Letters \cup Whitespace

\* str.strip(): leading and trailing whitespace removed.
RECURSIVE LStrip(_)
LStrip(s) == IF s # <<>> /\ Head(s) \in Whitespace THEN LStrip(Tail(s)) ELSE s

RECURSIVE RStrip(_)
RStrip(s) ==
    IF s # <<>> /\ s[Len(s)] \in Whitespace THEN RStrip(SubSeq(s, 1, Len(s) - 1)) ELSE s

Strip(s) == RStrip(LStrip(s))

\* self.encoding.encode: the tokenizer. As in cl100k_base a word takes the
\* space in front of it into its token (" a" is one token), every other
\* character is a token of its own. A token is the character sequence it
\* decodes to. A token starts at every position but that of a letter which
\* follows a whitespace character.
TokenStarts(s) ==
    SelectSeq([i \in 1..Len(s) |-> i],
              LAMBDA i : ~(i > 1 /\ s[i] \in Letters /\ s[i - 1] \in Whitespace))

Encode(s) ==
    LET starts == TokenStarts(s)
    IN  [k \in 1..Len(starts) |->
            SubSeq(s, starts[k],
                   IF k < Len(starts) THEN starts[k + 1] - 1 ELSE Len(s))]

\* self.encoding.decode: the concatenation of the tokens' characters.
Decode(tokens) == Concat(tokens)

ConfigRejectedLoose(m, o) == m <= 0 \/ o < 0 \/ o > m

\* TextChunker.__init__: the three configuration checks.
ConfigRejected(m, o) == m <= 0 \/ o < 0 \/ o >= m

TextChunkerInit ==
    /\ ch_obj = "none"
    /\ ch_obj' = IF ConfigRejected(max_tokens, overlap_tokens) THEN "error" ELSE "ok"
    /\ UNCHANGED <<ch_text, max_tokens, overlap_tokens, ch_pc, token_ids, start,
                   chunks, windows>>
    /\ UNCHANGED <<embedVars, storeVars, judgeVars, extraVars>>

StrippedTextNot(text) == text

\* stripped = text.strip(): line 49.
StrippedText(text) == Strip(text)

\* chunk_text up to the loop: lines 49-59.
ChunkTextBegin ==
    /\ ch_obj = "ok"
    /\ ch_pc = "idle"
    /\ LET stripped == StrippedText(ch_text)
           ids == Encode(stripped)
       IN  IF stripped = <<>>
           THEN /\ chunks' = <<>>
                /\ ch_pc' = "done"
                /\ UNCHANGED <<token_ids, start>>
           ELSE IF Len(ids) <= max_tokens
           THEN /\ chunks' = <<stripped>>
                /\ token_ids' = ids
                /\ ch_pc' = "done"
                /\ UNCHANGED start
           ELSE /\ chunks' = <<>>
                /\ token_ids' = ids
                /\ start' = 0
                /\ ch_pc' = "loop"
    /\ UNCHANGED <<ch_text, max_tokens, overlap_tokens, ch_obj, windows>>
    /\ UNCHANGED <<embedVars, storeVars, judgeVars, extraVars>>

WindowEndUnclamped(s, total) == s + max_tokens

\* end = min(start + self.max_tokens, total_tokens)
WindowEnd(s, total) == Min(s + max_tokens, total)

NextStartNoProgress(s, end) == end - max_tokens

NextStartNoOverlap(s, end) == end

\* Lines 70-78: where the next window starts.
NextStart(s, end) ==
    IF overlap_tokens # 0
    THEN LET n1 == end - overlap_tokens
             n2 == IF n1 >= end THEN end ELSE n1
             n3 == IF n2 <= s THEN end ELSE n2
         IN  n3
    ELSE end

\* One iteration of the while loop: lines 60-78.
ChunkTextLoop ==
    /\ ch_pc = "loop"
    /\ LET total == Len(token_ids)
           end == WindowEnd(start, total)
           chunk_tokens == Slice(token_ids, start, end)
           chunk_text == Strip(Decode(chunk_tokens))
       IN  /\ chunks' = IF chunk_text # <<>> THEN Append(chunks, chunk_text) ELSE chunks
           /\ windows' = Append(windows, <<start, end>>)
           /\ IF end = total
              THEN /\ ch_pc' = "done"
                   /\ UNCHANGED start
              ELSE /\ start' = NextStart(start, end)
                   /\ ch_pc' = IF start' < total THEN "loop" ELSE "done"
    /\ UNCHANGED <<ch_text, max_tokens, overlap_tokens, ch_obj, token_ids>>
    /\ UNCHANGED <<embedVars, storeVars, judgeVars, extraVars>>

(***************************************************************************)
(*                         OpenAIEmbeddingClient                            *)
(***************************************************************************)
MaxTexts == 4
MaxBatch == 3

\* The texts handed to the embedding provider (chunk texts).
ChunkTexts == {"x", "y"}

\* The embedding model's vector for a text: what a conforming provider
\* returns for it. Unit vectors, so that the cosine distance is 1 - dot.
ProviderVector(t) == IF t = "x" THEN <<1, 0>> ELSE <<0 - 1, 0>>

\* How the provider behind self.client.embeddings.create answers a call.
\*   conforming: one vector per input, in input order
\*   drops_last: the record of the last input is missing from response.data
\*   short_last: the vector of the last input has one component less
\*   raises:     the call raises (timeout, rate limit, network failure)
\*   raises_on_y: the call raises when the text "y" is among its inputs
ProviderModes == {"conforming", "drops_last", "short_last", "raises", "raises_on_y"}

NoBatch == [model |-> "none", dimensions |-> 0 - 1, vectors |-> <<>>]
EmbeddingModel == "text-embedding-3-small"

\* response.data of self.client.embeddings.create(model, input=list(texts)).
ProviderData(texts, mode) ==
    LET all == [i \in 1..Len(texts) |-> ProviderVector(texts[i])]
    IN  CASE mode = "drops_last" -> SubSeq(all, 1, Len(all) - 1)
          [] mode = "short_last" ->
               [i \in 1..Len(all) |->
                   IF i = Len(all) THEN SubSeq(all[i], 1, Len(all[i]) - 1) ELSE all[i]]
          [] OTHER -> all

\* embed_texts raises: the provider call raised, or response.data[0] does
\* not exist (IndexError).
EmbedTextsRaises(texts, mode) ==
    /\ texts # <<>>
    /\ \/ mode = "raises"
       \/ mode = "raises_on_y" /\ \E i \in 1..Len(texts) : texts[i] = "y"
       \/ ProviderData(texts, mode) = <<>>

\* embed_texts: lines 101-108 (the returned EmbeddingBatch).
EmbedTexts(texts, mode) ==
    IF texts = <<>>
    THEN [model |-> EmbeddingModel, dimensions |-> 0, vectors |-> <<>>]
    ELSE LET data == ProviderData(texts, mode)
         IN  [model |-> EmbeddingModel,
              dimensions |-> Len(data[1]),
              vectors |-> data]

\* texts[start : start + self.batch_size]
BatchSliceShort(texts, s, size) == Slice(texts, s, s + size - 1)

BatchSlice(texts, s, size) == Slice(texts, s, s + size)

\* embed_in_batches up to the loop: lines 111-115.
EmbedInBatchesBegin ==
    /\ em_pc = "idle"
    /\ em_vectors' = <<>>
    /\ em_calls' = 0
    /\ IF em_texts = <<>>
       THEN /\ em_result' = [model |-> EmbeddingModel, dimensions |-> 0, vectors |-> <<>>]
            /\ em_pc' = "done"
            /\ UNCHANGED <<em_dimensions, em_start>>
       ELSE /\ em_dimensions' = 0
            /\ em_start' = 0
            /\ em_pc' = "loop"
            /\ UNCHANGED em_result
    /\ UNCHANGED <<em_texts, batch_size, provider>>
    /\ UNCHANGED <<chunkerVars, storeVars, judgeVars, extraVars>>

\* One iteration of the for loop, and the return after the last one:
\* lines 116-123. An exception of embed_texts leaves the method at once.
EmbedInBatchesLoop ==
    /\ em_pc = "loop"
    /\ em_calls' = em_calls + 1
    /\ LET batch == BatchSlice(em_texts, em_start, batch_size)
       IN  IF EmbedTextsRaises(batch, provider)
           THEN /\ em_pc' = "raised"
                /\ UNCHANGED <<em_start, em_vectors, em_dimensions, em_result>>
           ELSE LET batch_result == EmbedTexts(batch, provider)
                    vs == em_vectors \o batch_result.vectors
                    last == em_start + batch_size >= Len(em_texts)
                IN  /\ em_dimensions' = batch_result.dimensions
                    /\ em_vectors' = vs
                    /\ em_start' = em_start + batch_size
                    /\ em_pc' = IF last THEN "done" ELSE "loop"
                    /\ em_result' =
                         IF last
                         THEN [model |-> EmbeddingModel,
                               dimensions |-> batch_result.dimensions,
                               vectors |-> vs]
                         ELSE em_result
    /\ UNCHANGED <<em_texts, batch_size, provider>>
    /\ UNCHANGED <<chunkerVars, storeVars, judgeVars, extraVars>>

(***************************************************************************)
(*               DocumentRepository: wh.document_chunks                     *)
(***************************************************************************)
MaxOps == 3
MaxChunks == 2

\* wh.documents: the documents the chunk rows refer to (foreign key).
DocIds == {1, 2}

\* SQL NULL in a vector, a text and an integer column.
NullVec == <<>>
NullStr == "NULL"
NullInt == 0 - 1

\* _vector_literal: "[v1, v2, ...]" with 8 decimals per component, read back
\* by the store as the same vector for the integral components used here.
VectorLiteral(values) == [i \in 1..Len(values) |-> values[i]]

Dot(u, v) == u[1] * v[1] + u[2] * v[2]

\* The <=> operator (cosine distance) on unit vectors.
CosineDistance(u, v) == 1 - Dot(u, v)

RowsOf(table, d) == {r \in table : r.document_id = d}
RowAt(table, d, i) == {r \in table : r.document_id = d /\ r.chunk_index = i}

\* ON CONFLICT (document_id, chunk_index) DO NOTHING
UpsertRowDoNothing(table, d, i, text, id, t) ==
    IF RowAt(table, d, i) # {}
    THEN table
    ELSE table \cup {[id |-> id, document_id |-> d, chunk_index |-> i, text |-> text,
                      embedding |-> NullVec, embedding_model |-> NullStr,
                      embedding_dimensions |-> NullInt,
                      embedding_updated_at |-> NullInt, updated_at |-> t]}

\* One row of the INSERT ... ON CONFLICT (document_id, chunk_index) DO UPDATE
\* statement: lines 341-351. id is the value the serial column drew for the
\* proposed row, t the statement's NOW().
UpsertRow(table, d, i, text, id, t) ==
    IF RowAt(table, d, i) # {}
    THEN {IF r.document_id = d /\ r.chunk_index = i
          THEN [r EXCEPT !.text = text,
                         !.embedding = NullVec,
                         !.embedding_model = NullStr,
                         !.embedding_dimensions = NullInt,
                         !.embedding_updated_at = NullInt,
                         !.updated_at = t]
          ELSE r : r \in table}
    ELSE table \cup {[id |-> id, document_id |-> d, chunk_index |-> i, text |-> text,
                      embedding |-> NullVec, embedding_model |-> NullStr,
                      embedding_dimensions |-> NullInt,
                      embedding_updated_at |-> NullInt, updated_at |-> t]}

\* The whole statement: values = [(document_id, index, chunk) for index, chunk
\* in enumerate(chunks)], lines 332-354. k rows are still to be written.
RECURSIVE UpsertAll(_, _, _, _, _, _)
UpsertAll(table, d, cs, k, id0, t) ==
    IF k = 0 THEN table
    ELSE UpsertRow(UpsertAll(table, d, cs, k - 1, id0, t), d, k - 1, cs[k], id0 + k - 1, t)

\* insert_document_chunks: lines 328-356.
InsertDocumentChunks(d, cs) ==
    /\ now < MaxOps
    /\ now' = now + 1
    /\ IF cs = <<>>
       THEN UNCHANGED <<rows, next_id>>
       ELSE /\ rows' = UpsertAll(rows, d, cs, Len(cs), next_id, now)
            /\ next_id' = next_id + Len(cs)
    /\ last_op' = [op |-> "insert", document_id |-> d, chunks |-> cs,
                   returned |-> Len(cs),
                   \* history: the ids of the embedded rows the call wrote over
                   overwrote |-> {r.id : r \in {x \in RowsOf(rows, d) :
                                    x.chunk_index < Len(cs) /\ x.embedding # NullVec}}]
    /\ search_result' = <<>>
    /\ UNCHANGED <<chunkerVars, embedVars, judgeVars, extraVars>>

\* the UPDATE without its embedding_dimensions column
UpdatedRowsNoDimensions(table, chunk_id, embedding, embedding_model, embedding_dimensions, t) ==
    {IF r.id = chunk_id
     THEN [r EXCEPT !.embedding = VectorLiteral(embedding),
                    !.embedding_model = embedding_model,
                    !.embedding_updated_at = t,
                    !.updated_at = t]
     ELSE r : r \in table}

\* The UPDATE ... WHERE id = chunk_id statement: lines 393-402. t is the
\* statement's NOW().
UpdatedRows(table, chunk_id, embedding, embedding_model, embedding_dimensions, t) ==
    {IF r.id = chunk_id
     THEN [r EXCEPT !.embedding = VectorLiteral(embedding),
                    !.embedding_model = embedding_model,
                    !.embedding_dimensions = embedding_dimensions,
                    !.embedding_updated_at = t,
                    !.updated_at = t]
     ELSE r : r \in table}

\* update_chunk_embedding: lines 385-414.
UpdateChunkEmbedding(chunk_id, embedding, embedding_model, embedding_dimensions) ==
    /\ now < MaxOps
    /\ now' = now + 1
    /\ rows' = UpdatedRows(rows, chunk_id, embedding, embedding_model,
                           embedding_dimensions, now)
    /\ last_op' = [op |-> "update", chunk_id |-> chunk_id, embedding |-> embedding]
    /\ search_result' = <<>>
    /\ UNCHANGED next_id
    /\ UNCHANGED <<chunkerVars, embedVars, judgeVars, extraVars>>

\* FROM wh.document_chunks c JOIN wh.documents d ON d.id = c.document_id
EligibleRowsAll(table) == {r \in table : r.document_id \in DocIds}

\* ... WHERE c.embedding IS NOT NULL: lines 437-439.
EligibleRows(table) ==
    {r \in table : r.document_id \in DocIds /\ r.embedding # NullVec}

\* The ORDER BY key (c.embedding <=> %s): a NULL distance sorts last.
OrderKey(r, q) ==
    IF r.embedding = NullVec THEN 3 ELSE CosineDistance(r.embedding, VectorLiteral(q))

SearchRow(r, q) ==
    [chunk_id |-> r.id, document_id |-> r.document_id, chunk_index |-> r.chunk_index,
     score |-> IF r.embedding = NullVec THEN NullInt
               ELSE CosineDistance(r.embedding, VectorLiteral(q)),
     text |-> r.text]

\* ORDER BY ... LIMIT k: every order of the first k rows the store may
\* return; the order among rows of equal distance is the store's choice.
RECURSIVE OrderedLimit(_, _, _)
OrderedLimit(S, q, k) ==
    IF k <= 0 \/ S = {} THEN {<<>>}
    ELSE LET least == {r \in S : \A o \in S : OrderKey(r, q) <= OrderKey(o, q)}
         IN  UNION {{<<SearchRow(r, q)>> \o rest : rest \in OrderedLimit(S \ {r}, q, k - 1)}
                    : r \in least}

\* search_chunks_by_embedding: lines 416-461.
SearchChunksByEmbedding(embedding, limit) ==
    /\ search_result' \in
         IF limit <= 0 THEN {<<>>}
         ELSE OrderedLimit(EligibleRows(rows), embedding, limit)
    /\ last_op' = [op |-> "search", embedding |-> embedding, limit |-> limit]
    /\ UNCHANGED <<rows, next_id, now>>
    /\ UNCHANGED <<chunkerVars, embedVars, judgeVars, extraVars>>

\* The arguments the repository is called with.
\* Chunk lists of 0..MaxChunks texts: the two alternating lists of each
\* length, so that two lists of a document differ at every index.
ChunkLists ==
    {[i \in 1..n |-> IF i % 2 = 1 THEN t ELSE CHOOSE o \in ChunkTexts : o # t]
        : n \in 0..MaxChunks, t \in ChunkTexts}
StoredVectors == {ProviderVector(t) : t \in ChunkTexts}
QueryVectors == {<<1, 0>>}
Limits == {0, 1, 5}

Insert == \E d \in DocIds, cs \in ChunkLists : InsertDocumentChunks(d, cs)

Update ==
    \E id \in {r.id : r \in rows} \cup {next_id}, v \in StoredVectors :
        UpdateChunkEmbedding(id, v, EmbeddingModel, Len(v))

Search == \E q \in QueryVectors, k \in Limits : SearchChunksByEmbedding(q, k)

(***************************************************************************)
(*                           LLMRelevanceJudge                              *)
(***************************************************************************)
MaxCands == 3
MaxJudgeBatch == 3

\* Python values as json.loads returns them. A str is a sequence of
\* characters; text whose letters never matter is written as one atom.
PyNone == [t |-> "none"]
PyStr(chars) == [t |-> "str", s |-> chars]
PyNum(n) == [t |-> "num", n |-> n]
PyList(items) == [t |-> "list", items |-> items]
PyDict(d) == [t |-> "dict", d |-> d]

\* bool(v): what "or" and "if" test.
Truthy(v) ==
    CASE v.t = "none" -> FALSE
      [] v.t = "str" -> v.s # <<>>
      [] v.t = "num" -> v.n # 0
      [] v.t = "list" -> v.items # <<>>
      [] v.t = "dict" -> DOMAIN v.d # {}
      [] OTHER -> TRUE

\* a or b
PyOr(a, b) == IF Truthy(a) THEN a ELSE b

\* dict.get(key)
Get(v, key) == IF key \in DOMAIN v.d THEN v.d[key] ELSE PyNone

\* str(v) of a value that is not a str.
PyRepr(v) ==
    CASE v.t = "num" -> <<"1">>
      [] v.t = "list" -> <<"[...]">>
      [] v.t = "dict" -> <<"{...}">>
      [] OTHER -> <<"None">>

UpperChar(c) ==
    CASE c = "y" -> "Y" [] c = "e" -> "E" [] c = "s" -> "S"
      [] c = "n" -> "N" [] c = "o" -> "O" [] c = "m" -> "M"
      [] c = "a" -> "A" [] c = "b" -> "B"
      [] OTHER -> c

\* str.upper()
Upper(s) == [i \in 1..Len(s) |-> UpperChar(s[i])]

Judgment(response, valid, explanation) ==
    [response |-> response, valid_response |-> valid, explanation |-> explanation]

\* _extract_judgment comparing the answer without upper-casing it
ExtractJudgmentCaseSensitive(entry) ==
    IF entry.t = "none"
    THEN Judgment(<<>>, FALSE, PyStr(<<"missing entry">>))
    ELSE LET explanation ==
                 IF entry.t = "dict"
                 THEN PyOr(Get(entry, "explanation"), Get(entry, "reason"))
                 ELSE PyNone
             raw_answer ==
                 IF entry.t = "dict"
                 THEN PyOr(Get(entry, "answer"), Get(entry, "decision"))
                 ELSE PyNone
             answer ==
                 CASE entry.t = "str" -> Strip(entry.s)
                   [] entry.t = "dict" ->
                        IF raw_answer.t = "none" THEN <<>>
                        ELSE IF raw_answer.t = "str" THEN Strip(raw_answer.s)
                        ELSE Strip(PyRepr(raw_answer))
                   [] OTHER -> Strip(PyRepr(entry))
         IN  IF answer \in {<<"Y", "E", "S">>, <<"N", "O">>}
             THEN Judgment(answer, TRUE, explanation)
             ELSE Judgment(answer, FALSE, explanation)

\* _extract_judgment: lines 387-409.
ExtractJudgment(entry) ==
    IF entry.t = "none"
    THEN Judgment(<<>>, FALSE, PyStr(<<"missing entry">>))
    ELSE LET explanation ==
                 IF entry.t = "dict"
                 THEN PyOr(Get(entry, "explanation"), Get(entry, "reason"))
                 ELSE PyNone
             raw_answer ==
                 IF entry.t = "dict"
                 THEN PyOr(Get(entry, "answer"), Get(entry, "decision"))
                 ELSE PyNone
             answer ==
                 CASE entry.t = "str" -> Strip(entry.s)
                   [] entry.t = "dict" ->
                        IF raw_answer.t = "none" THEN <<>>
                        ELSE IF raw_answer.t = "str" THEN Strip(raw_answer.s)
                        ELSE Strip(PyRepr(raw_answer))
                   [] OTHER -> Strip(PyRepr(entry))
             normalized == Upper(answer)
         IN  IF normalized \in {<<"Y", "E", "S">>, <<"N", "O">>}
             THEN Judgment(normalized, TRUE, explanation)
             ELSE Judgment(answer, FALSE, explanation)

\* ---- reply texts -------------------------------------------------------
\* A reply text is a sequence of atoms: "FENCE" (the three backquotes of a
\* Markdown code fence), "\n", " ", a language tag, prose, or the text of
\* one complete JSON document.
TextWs == {" ", "\n"}

RECURSIVE TLStrip(_)
TLStrip(s) == IF s # <<>> /\ Head(s) \in TextWs THEN TLStrip(Tail(s)) ELSE s

RECURSIVE TRStrip(_)
TRStrip(s) ==
    IF s # <<>> /\ s[Len(s)] \in TextWs THEN TRStrip(SubSeq(s, 1, Len(s) - 1)) ELSE s

\* str.strip() of a reply text.
TStrip(s) == TRStrip(TLStrip(s))

\* str.startswith of the fence marker
StartsWithFence(s) == s # <<>> /\ s[1] = "FENCE"

\* str.splitlines()
RECURSIVE SplitLines(_, _)
SplitLines(s, cur) ==
    IF s = <<>> THEN (IF cur = <<>> THEN <<>> ELSE <<cur>>)
    ELSE IF Head(s) = "\n" THEN <<cur>> \o SplitLines(Tail(s), <<>>)
    ELSE SplitLines(Tail(s), Append(cur, Head(s)))

\* "\n".join(lines)
RECURSIVE JoinLines(_)
JoinLines(lines) ==
    IF lines = <<>> THEN <<>>
    ELSE IF Len(lines) = 1 THEN lines[1]
    ELSE lines[1] \o <<"\n">> \o JoinLines(Tail(lines))

\* _strip_code_fence: lines 368-385.
StripCodeFence(payload_text) ==
    IF payload_text = <<>> THEN <<>>
    ELSE LET stripped == TStrip(payload_text)
         IN  IF ~StartsWithFence(stripped) THEN stripped
             ELSE LET lines0 == SplitLines(stripped, <<>>)
                      lines1 == IF Len(lines0) >= 2 /\ StartsWithFence(lines0[1])
                                THEN Tail(lines0) ELSE lines0
                      lines2 == IF lines1 # <<>>
                                   /\ StartsWithFence(TStrip(lines1[Len(lines1)]))
                                THEN SubSeq(lines1, 1, Len(lines1) - 1) ELSE lines1
                  IN  TStrip(JoinLines(lines2))

\* ---- the JSON documents a reply may hold --------------------------------
S_YES == <<"Y", "E", "S">>
S_NO == <<"N", "O">>
E_YES == PyDict([answer |-> PyStr(S_YES), explanation |-> PyStr(<<"on topic">>)])
E_yes == PyDict([answer |-> PyStr(<<" ", "y", "e", "s", " ">>)])
E_No == PyDict([answer |-> PyStr(<<"N", "o">>), reason |-> PyStr(<<"off topic">>)])
E_maybe == PyDict([answer |-> PyStr(<<"m", "a", "y", "b", "e">>)])
E_decision == PyDict([decision |-> PyStr(S_NO)])
E_bare == PyStr(<<"y", "e", "s">>)

JsonDocs == {"[]", "[Y]", "[y,N]", "[Y,m,d]", "[s,null,1,Y]", "{answers:[Y,N]}",
             "{results:[N]}", "{answer:YES}", "null", "{answers:1,results:[y]}",
             "[Y,N,Y]", "{answers:[N],results:[Y]}"}

\* json.loads of the text of one document.
DocValue(doc) ==
    CASE doc = "[]" -> PyList(<<>>)
      [] doc = "[Y]" -> PyList(<<E_YES>>)
      [] doc = "[y,N]" -> PyList(<<E_yes, E_No>>)
      [] doc = "[Y,m,d]" -> PyList(<<E_YES, E_maybe, E_decision>>)
      [] doc = "[s,null,1,Y]" -> PyList(<<E_bare, PyNone, PyNum(1), E_YES>>)
      [] doc = "{answers:[Y,N]}" -> PyDict([answers |-> PyList(<<E_YES, E_No>>)])
      [] doc = "{results:[N]}" -> PyDict([results |-> PyList(<<E_No>>)])
      [] doc = "{answer:YES}" -> E_YES
      [] doc = "{answers:1,results:[y]}" ->
           PyDict([answers |-> PyNum(1), results |-> PyList(<<E_yes>>)])
      [] doc = "[Y,N,Y]" -> PyList(<<E_YES, E_No, E_YES>>)
      [] doc = "{answers:[N],results:[Y]}" ->
           PyDict([answers |-> PyList(<<E_No>>), results |-> PyList(<<E_YES>>)])
      [] doc = "null" -> PyNone
      [] OTHER -> PyNone

JsonError == [t |-> "JSONDecodeError"]

\* json.loads: the text decodes when it is one JSON document, with or
\* without whitespace around it.
JsonLoads(text) ==
    LET body == TStrip(text)
    IN  IF Len(body) = 1 /\ body[1] \in JsonDocs THEN DocValue(body[1]) ELSE JsonError

\* the entries of a decoded payload, looking under "answers" only
PayloadEntriesAnswersOnly(payload) ==
    IF payload.t = "dict"
    THEN IF Get(payload, "answers").t = "list" THEN Get(payload, "answers").items
         ELSE <<payload>>
    ELSE IF payload.t = "list" THEN payload.items
    ELSE <<payload>>

\* Lines 351-360: the list of entries of a decoded payload.
PayloadEntries(payload) ==
    IF payload.t = "dict"
    THEN IF Get(payload, "answers").t = "list" THEN Get(payload, "answers").items
         ELSE IF Get(payload, "results").t = "list" THEN Get(payload, "results").items
         ELSE <<payload>>
    ELSE IF payload.t = "list" THEN payload.items
    ELSE <<payload>>

\* for index in range(expected): one judgment per entry that exists
JudgmentsOfNoPadding(entries, expected) ==
    [i \in 1..Min(expected, Len(entries)) |-> ExtractJudgment(entries[i])]

\* for index in range(expected), with index < len(payload) - 1
JudgmentsOfOffByOne(entries, expected) ==
    [i \in 1..expected |->
        ExtractJudgment(IF i < Len(entries) THEN entries[i] ELSE PyNone)]

\* Lines 362-366: for index in range(expected), None for a missing entry.
JudgmentsOf(entries, expected) ==
    [i \in 1..expected |->
        ExtractJudgment(IF i <= Len(entries) THEN entries[i] ELSE PyNone)]

\* the judgment of an undecodable reply carrying the text json.loads was given
UndecodableJudgmentCleaned(payload_text) ==
    Judgment(StripCodeFence(payload_text), FALSE, PyNone)

\* Line 347: the judgment every candidate gets when json.loads raises.
UndecodableJudgment(payload_text) == Judgment(TStrip(payload_text), FALSE, PyNone)

\* Line 340: the judgment every candidate gets when the cleaned text is empty.
EmptyJudgment == Judgment(<<"empty response from model">>, FALSE, PyNone)

\* _parse_response: lines 336-366.
ParseResponse(payload_text, expected) ==
    LET cleaned_text == StripCodeFence(payload_text)
    IN  IF cleaned_text = <<>>
        THEN [i \in 1..expected |-> EmptyJudgment]
        ELSE IF JsonLoads(cleaned_text) = JsonError
        THEN [i \in 1..expected |-> UndecodableJudgment(payload_text)]
        ELSE JudgmentsOf(PayloadEntries(JsonLoads(cleaned_text)), expected)

\* message.content of the chat completion: a text, or None.
NoContent == <<"None">>
ReplyContents ==
    {NoContent, <<>>, <<" ", "\n">>, <<"prose">>, <<"[{">>,
     <<"prose", "\n", "[Y]">>,
     <<"FENCE", "json", "\n", "[y,N]", "\n", "FENCE">>,
     <<"FENCE", "\n", "[Y,m,d]", "\n", "FENCE", "\n">>,
     <<"FENCE", "[Y]", "FENCE">>,
     <<"FENCE", "\n", "FENCE">>,
     <<" ", "prose", "\n">>,
     <<"FENCE", "json", "\n", "[{", "\n", "FENCE">>}
    \cup {<<doc>> : doc \in JsonDocs}

\* _invoke: lines 333-334 (message.strip() if message else "").
Invoke(content) == IF content = NoContent \/ content = <<>> THEN <<>> ELSE TStrip(content)

\* ---- _parse_response and _extract_judgment called on their own ----------
MaxExpected == 3

\* The ways a reply wraps the text of a document in Markdown code fences.
FencedForms(doc) ==
    {<<"FENCE", "json", "\n", doc, "\n", "FENCE">>,
     <<"FENCE", "\n", doc, "\n", "FENCE">>,
     <<"FENCE", "\n", doc, "\n", "FENCE", "\n">>,
     <<"FENCE", "json", " ", doc, " ", "FENCE">>,
     <<"FENCE", doc, "FENCE">>}

\* The payload_text arguments of _parse_response: what _invoke returns for
\* the replies above, texts with whitespace around them, the bare words
\* YES and NO (which are no JSON documents), and every document bare and
\* fenced.
ParseTexts ==
    {Invoke(content) : content \in ReplyContents}
    \cup {<<" ", "prose", "\n">>, <<" ", "[Y]", "\n">>}
    \cup {S_YES, S_NO, <<" ", "N", "O", "\n">>}
    \cup UNION {FencedForms(doc) : doc \in JsonDocs}

\* _parse_response(payload_text, expected=...)
ParseResponseCall ==
    /\ p_pc = "idle"
    /\ p_judgments' = ParseResponse(p_text, p_expected)
    /\ p_pc' = "done"
    /\ UNCHANGED <<p_text, p_expected>>
    /\ UNCHANGED notParseVars

\* The letter-case variants of a word.
CaseVariants(w) ==
    {[i \in 1..Len(w) |-> IF i \in U THEN UpperChar(w[i]) ELSE w[i]] :
        U \in SUBSET (1..Len(w))}

\* A word with and without whitespace around it.
Padded(w) == {w, <<" ">> \o w, w \o <<" ">>, <<" ">> \o w \o <<" ">>}

\* The verdict strings a reply may carry.
VerdictStrings ==
    UNION {Padded(w) :
        w \in CaseVariants(<<"y", "e", "s">>) \cup CaseVariants(<<"n", "o">>)
              \cup {<<"m", "a", "y", "b", "e">>, <<"M", "a", "y", "b", "e">>,
                    <<"y", "e", "s", "s">>, <<"y", "e">>, <<"o", "n">>, <<>>}}

\* The array entries handed to _extract_judgment.
Entries ==
    {PyDict([answer |-> PyStr(v)]) : v \in VerdictStrings}
    \cup {PyDict([answer |-> PyStr(v), explanation |-> PyStr(<<"because">>)]) :
            v \in VerdictStrings}
    \cup {PyStr(v) : v \in VerdictStrings}
    \cup {PyNone, PyNum(1), E_decision, E_No, PyDict([answer |-> PyNum(1)]),
          PyDict([answer |-> PyStr(<<>>), decision |-> PyStr(S_NO)]),
          PyList(<<>>)}

\* _extract_judgment(entry)
ExtractJudgmentCall ==
    /\ x_pc = "idle"
    /\ x_judgment' = ExtractJudgment(x_entry)
    /\ x_pc' = "done"
    /\ UNCHANGED x_entry
    /\ UNCHANGED notExtractVars

\* How a call of judge ended.
Pending == [kind |-> "pending", value |-> <<>>]
Returned(value) == [kind |-> "value", value |-> value]
Raised == [kind |-> "exception", value |-> <<>>]

\* zip(batch, judgments)
Zip(batch, judgments) ==
    [i \in 1..Min(Len(batch), Len(judgments)) |->
        [chunk |-> batch[i], judgment |-> judgments[i]]]

\* judge up to the loop: lines 283-289.
JudgeBegin ==
    /\ j_pc = "idle"
    /\ enriched' = <<>>
    /\ IF results = <<>>
       THEN j_pc' = "done" /\ j_return' = Returned(<<>>) /\ UNCHANGED j_start
       ELSE j_pc' = "loop" /\ j_start' = 0 /\ UNCHANGED j_return
    /\ UNCHANGED <<results, j_batch_size, j_replies>>
    /\ UNCHANGED <<chunkerVars, embedVars, storeVars, extraVars>>

\* One iteration of the for loop with the provider replying: lines 290-298.
JudgeLoop ==
    /\ j_pc = "loop"
    /\ \E content \in ReplyContents :
          LET batch == Slice(results, j_start, j_start + j_batch_size)
              response_text == Invoke(content)
              judgments == ParseResponse(response_text, Len(batch))
          IN  /\ enriched' = enriched \o Zip(batch, judgments)
              /\ j_replies' = Append(j_replies, content)
    /\ j_start' = j_start + j_batch_size
    /\ j_pc' = IF j_start' < Len(results) THEN "loop" ELSE "done"
    /\ j_return' = IF j_start' < Len(results) THEN j_return ELSE Returned(enriched')
    /\ UNCHANGED <<results, j_batch_size>>
    /\ UNCHANGED <<chunkerVars, embedVars, storeVars, extraVars>>

\* One iteration with the provider call raising (line 293): neither _invoke
\* nor judge has a handler, the exception leaves judge and the caller gets
\* no value; enriched keeps what the earlier batches appended to the local.
JudgeInvokeRaises ==
    /\ j_pc = "loop"
    /\ j_pc' = "raised"
    /\ j_return' = Raised
    /\ UNCHANGED <<results, j_batch_size, j_start, enriched, j_replies>>
    /\ UNCHANGED <<chunkerVars, embedVars, storeVars, extraVars>>

(***************************************************************************)
(*                      web/app.py: _sort_results                           *)
(***************************************************************************)
MaxResults == 3

\* date_published is None, or a date given by its ordinal; date.min is the
\* first ordinal.
NoDate == 0
DateMin == 1
PublishDates == {NoDate, 2, 3}
SortDocs == {1, 2, 3}
ALLOWED_SORTS == {"relevance", "date_desc", "date_asc"}

\* sort_value: lines 52-54.
SortValue(result) ==
    <<IF result.date_published # NoDate THEN result.date_published ELSE DateMin,
      result.document_id>>

\* The order of the key tuples.
TupleLess(a, b) == a[1] < b[1] \/ (a[1] = b[1] /\ a[2] < b[2])

\* r sorts strictly before e.
Before(r, e, reverse) ==
    IF reverse THEN TupleLess(SortValue(e), SortValue(r))
    ELSE TupleLess(SortValue(r), SortValue(e))

\* sorted() is stable, also with reverse=True: an element goes in front of
\* the first element it sorts strictly before.
RECURSIVE InsertSorted(_, _, _)
InsertSorted(done, r, reverse) ==
    IF done = <<>> THEN <<r>>
    ELSE IF Before(r, Head(done), reverse) THEN <<r>> \o done
    ELSE <<Head(done)>> \o InsertSorted(Tail(done), r, reverse)

RECURSIVE Sorted(_, _)
Sorted(seq, reverse) ==
    IF seq = <<>> THEN <<>>
    ELSE InsertSorted(Sorted(SubSeq(seq, 1, Len(seq) - 1), reverse),
                      seq[Len(seq)], reverse)

\* _sort_results: lines 46-56.
SortResults(rs, sort_key) ==
    IF sort_key = "relevance" THEN rs
    ELSE Sorted(rs, sort_key = "date_desc")

SortResultsCall ==
    /\ s_pc = "idle"
    /\ s_sorted' = SortResults(s_results, s_key)
    /\ s_pc' = "done"
    /\ UNCHANGED <<s_results, s_key>>
    /\ UNCHANGED notSortVars

(***************************************************************************)
(*                   search.py main: reporting a search                     *)
(***************************************************************************)
MaxOutputs == 3

NoJudgment == PyNone
J_YES == Judgment(S_YES, TRUE, PyStr(<<"on topic">>))
J_NO == Judgment(S_NO, TRUE, PyNone)
J_maybe == Judgment(<<"m", "a", "y", "b", "e">>, FALSE, PyNone)
J_missing == Judgment(<<>>, FALSE, PyStr(<<"missing entry">>))
Judgments == {J_YES, J_NO, J_maybe, J_missing}

\* output.judgment and output.judgment.valid_response and
\* output.judgment.response == verdict (lines 464, 469)
HasVerdict(output, verdict) ==
    /\ output.judgment # NoJudgment
    /\ output.judgment.valid_response
    /\ output.judgment.response = verdict

\* the selection without its last branch: nothing accepted, nothing written
ToWriteNoFallback(outputs, advanced, include_rejected) ==
    LET accepted_outputs == SelectSeq(outputs, LAMBDA o : HasVerdict(o, S_YES))
        rejected_outputs == SelectSeq(outputs, LAMBDA o : HasVerdict(o, S_NO))
    IN  IF ~advanced THEN [to_write |-> outputs, warned |-> FALSE]
        ELSE IF accepted_outputs # <<>>
        THEN [to_write |-> IF include_rejected /\ rejected_outputs # <<>>
                           THEN accepted_outputs \o rejected_outputs
                           ELSE accepted_outputs,
              warned |-> FALSE]
        ELSE IF rejected_outputs # <<>> /\ include_rejected
        THEN [to_write |-> rejected_outputs, warned |-> TRUE]
        ELSE [to_write |-> accepted_outputs, warned |-> TRUE]

\* Lines 459-479: the list written to the file, and whether a warning is
\* logged.
ToWrite(outputs, advanced, include_rejected) ==
    LET accepted_outputs == SelectSeq(outputs, LAMBDA o : HasVerdict(o, S_YES))
        rejected_outputs == SelectSeq(outputs, LAMBDA o : HasVerdict(o, S_NO))
    IN  IF ~advanced THEN [to_write |-> outputs, warned |-> FALSE]
        ELSE IF accepted_outputs # <<>>
        THEN [to_write |-> IF include_rejected /\ rejected_outputs # <<>>
                           THEN accepted_outputs \o rejected_outputs
                           ELSE accepted_outputs,
              warned |-> FALSE]
        ELSE IF rejected_outputs # <<>> /\ include_rejected
        THEN [to_write |-> rejected_outputs, warned |-> TRUE]
        ELSE [to_write |-> outputs, warned |-> TRUE]

\* main after the search has returned: lines 440-494.
MainReport ==
    /\ w_pc = "start"
    /\ IF w_outputs = <<>>
       THEN w_pc' = "no_matches" /\ UNCHANGED <<to_write, w_warned>>
       ELSE IF w_to_file = "none"
       THEN w_pc' = "printed" /\ UNCHANGED <<to_write, w_warned>>
       ELSE LET sel == ToWrite(w_outputs, w_advanced, w_include_rejected)
            IN  /\ to_write' = sel.to_write
                /\ w_warned' = sel.warned
                /\ w_pc' = IF w_to_file = "blank" THEN "exit_1" ELSE "written"
    /\ UNCHANGED <<w_advanced, w_include_rejected, w_to_file, w_outputs>>
    /\ UNCHANGED notCliVars

(***************************************************************************)
(*      The runs: chunk_documents, embed_pending_chunks and search          *)
(*      as the sequence of store queries and network calls they issue       *)
(***************************************************************************)
MaxPending == 2

\* A store query may fail (connection lost, statement error).
StoreOutcomes == {"ok", "error"}

\* What the user of a run gets: nothing yet, the exit status of the
\* process, or the status and the error text of the HTTP response.
Status(code, error) == [code |-> code, error |-> error]
NoStatus == Status(0, "")

\* One more call in the history.
Called(name) == Append(r_calls, name)

RunStays == UNCHANGED <<r_op, r_key, r_max, r_overlap, r_query, r_pending,
                        r_mode, r_sort>>

\* The run ends with the exception leaving the function.
RunFails(exception) ==
    r_pc' = "failed" /\ r_result' = exception /\ UNCHANGED r_status

\* The run ends with a return statement.
RunReturns == r_pc' = "done" /\ r_result' = "returned" /\ UNCHANGED r_status

\* chunk_documents, lines 18-22: DocumentRepository() opens no connection;
\* TextChunker(...) validates the settings.
ChunkRunConstruct ==
    /\ r_op = "chunk" /\ r_pc = "start"
    /\ IF ConfigRejected(r_max, r_overlap)
       THEN RunFails("ValueError")
       ELSE r_pc' = "list" /\ UNCHANGED <<r_result, r_status>>
    /\ UNCHANGED <<r_i, r_calls>>
    /\ RunStays /\ UNCHANGED notRunVars

\* chunk_documents, lines 24-29.
ChunkRunList ==
    /\ r_op = "chunk" /\ r_pc = "list"
    /\ r_calls' = Called("store:list_documents_without_chunks")
    /\ \E outcome \in StoreOutcomes :
          IF outcome = "error" THEN RunFails("StoreError")
          ELSE IF r_pending = 0 THEN RunReturns
          ELSE r_pc' = "loop" /\ UNCHANGED <<r_result, r_status>>
    /\ r_i' = 0
    /\ RunStays /\ UNCHANGED notRunVars

\* chunk_documents, one iteration of lines 30-43 and the return of lines
\* 45-46: a document without chunkable text is skipped, the chunks of
\* every other document are inserted.
ChunkRunLoop ==
    /\ r_op = "chunk" /\ r_pc = "loop"
    /\ \E chunkable \in BOOLEAN, outcome \in StoreOutcomes :
          /\ r_calls' = IF chunkable THEN Called("store:insert_document_chunks")
                        ELSE r_calls
          /\ IF chunkable /\ outcome = "error" THEN RunFails("StoreError")
             ELSE IF r_i + 1 = r_pending THEN RunReturns
             ELSE r_pc' = "loop" /\ UNCHANGED <<r_result, r_status>>
    /\ r_i' = r_i + 1
    /\ RunStays /\ UNCHANGED notRunVars

\* embed_pending_chunks, lines 17-21.
EmbedRunList ==
    /\ r_op = "embed" /\ r_pc = "start"
    /\ r_calls' = Called("store:list_chunks_without_embeddings")
    /\ \E outcome \in StoreOutcomes :
          IF outcome = "error" THEN RunFails("StoreError")
          ELSE IF r_pending = 0 THEN RunReturns
          ELSE r_pc' = "client" /\ UNCHANGED <<r_result, r_status>>
    /\ UNCHANGED r_i
    /\ RunStays /\ UNCHANGED notRunVars

\* embed_pending_chunks, line 23: OpenAIEmbeddingClient() outside the try.
EmbedRunClient ==
    /\ r_op = "embed" /\ r_pc = "client"
    /\ IF ~r_key THEN RunFails("RuntimeError")
       ELSE r_pc' = "embed" /\ UNCHANGED <<r_result, r_status>>
    /\ UNCHANGED <<r_i, r_calls>>
    /\ RunStays /\ UNCHANGED notRunVars

\* embed_pending_chunks, lines 27-31: embed_in_batches (one provider call,
\* the pending texts fit one batch of 64); an exception is logged and the
\* run returns 0.
EmbedRunEmbed ==
    /\ r_op = "embed" /\ r_pc = "embed"
    /\ r_calls' = Called("net:embeddings.create")
    /\ \E raises \in BOOLEAN :
          IF raises THEN RunReturns
          ELSE r_pc' = "update" /\ UNCHANGED <<r_result, r_status>>
    /\ r_i' = 0
    /\ RunStays /\ UNCHANGED notRunVars

\* embed_pending_chunks, one iteration of lines 33-46 and the return of
\* lines 48-49.
EmbedRunUpdate ==
    /\ r_op = "embed" /\ r_pc = "update"
    /\ r_calls' = Called("store:update_chunk_embedding")
    /\ \E outcome \in StoreOutcomes :
          IF outcome = "error" THEN RunFails("StoreError")
          ELSE IF r_i + 1 = r_pending THEN RunReturns
          ELSE r_pc' = "update" /\ UNCHANGED <<r_result, r_status>>
    /\ r_i' = r_i + 1
    /\ RunStays /\ UNCHANGED notRunVars

\* search, lines 81-85: the query check and OpenAIEmbeddingClient().
SearchRunStart ==
    /\ r_op \in {"search", "api"} /\ r_pc = "start"
    /\ IF r_query = "" THEN RunFails("ValueError")
       ELSE IF ~r_key THEN RunFails("RuntimeError")
       ELSE r_pc' = "embed" /\ UNCHANGED <<r_result, r_status>>
    /\ UNCHANGED <<r_i, r_calls>>
    /\ RunStays /\ UNCHANGED notRunVars

\* search, lines 86-95: embed_texts([cleaned]), which raises when the
\* provider call raises or answers without a record (response.data[0]),
\* and the call of search_chunks_by_embedding with the keyword admins,
\* which the method of models.py (lines 416-421) does not accept: the call
\* raises TypeError before the method body runs.
SearchRunEmbed ==
    /\ r_op \in {"search", "api"} /\ r_pc = "embed"
    /\ r_calls' = Called("net:embeddings.create")
    /\ \E outcome \in {"raises", "vectors"} :
          IF outcome = "raises" THEN RunFails("ProviderError")
          ELSE RunFails("TypeError")
    /\ UNCHANGED r_i
    /\ RunStays /\ UNCHANGED notRunVars

\* main, lines 431-438: search and advanced_search (whose first statement
\* is the call of search) run inside one try; any exception is logged as
\* "Search failed" and the process exits with status 1.
MainSearchFailed ==
    /\ r_op = "search" /\ r_pc = "failed"
    /\ r_pc' = "exit"
    /\ r_status' = Status(1, "Search failed")
    /\ UNCHANGED <<r_i, r_calls, r_result>>
    /\ RunStays /\ UNCHANGED notRunVars

\* scrape, lines 104-111.
ScrapeRunList ==
    /\ r_op = "scrape" /\ r_pc = "start"
    /\ r_calls' = Called("store:list_pending")
    /\ \E outcome \in StoreOutcomes :
          IF outcome = "error" THEN RunFails("StoreError")
          ELSE IF r_pending = 0 THEN RunReturns
          ELSE r_pc' = "loop" /\ UNCHANGED <<r_result, r_status>>
    /\ r_i' = 0
    /\ RunStays /\ UNCHANGED notRunVars

\* scrape, one iteration of lines 113-125 and the end of the loop: the
\* page is fetched and parsed and mark_scraped stores it; an exception of
\* any of the three is caught and answered with mark_error, whose own
\* exception leaves the function.
ScrapeRunLoop ==
    /\ r_op = "scrape" /\ r_pc = "loop"
    /\ \E fetched \in BOOLEAN, scraped \in StoreOutcomes, marked \in StoreOutcomes :
          LET tried == IF fetched
                       THEN Append(Called("net:fetch_html"), "store:mark_scraped")
                       ELSE Called("net:fetch_html")
              caught == ~fetched \/ scraped = "error"
          IN  /\ r_calls' = IF caught THEN Append(tried, "store:mark_error") ELSE tried
              /\ IF caught /\ marked = "error" THEN RunFails("StoreError")
                 ELSE IF r_i + 1 = r_pending THEN RunReturns
                 ELSE r_pc' = "loop" /\ UNCHANGED <<r_result, r_status>>
    /\ r_i' = r_i + 1
    /\ RunStays /\ UNCHANGED notRunVars

\* web/app.py line 18.
MAX_QUERY_LENGTH == 200

\* len(query) of the three queries.
QueryLength(query) ==
    IF query = "" THEN 0 ELSE IF query = "q" THEN 1 ELSE MAX_QUERY_LENGTH + 1

AdvancedAlwaysAvailable(key) == TRUE

\* _advanced_available: bool(SETTINGS.openai_api_key).
AdvancedAvailable(key) == key

\* api_search, lines 168-195: the response the checks of the payload end
\* the request with, NoStatus when the request passes them all.
ApiRejection(query, mode, sort, key) ==
    IF QueryLength(query) = 0 THEN Status(400, "Query cannot be empty.")
    ELSE IF QueryLength(query) > MAX_QUERY_LENGTH
    THEN Status(400, "Query must be 200 characters or fewer.")
    ELSE IF mode \notin {"simple", "advanced"}
    THEN Status(400, "Mode must be 'simple' or 'advanced'.")
    ELSE IF sort \notin ALLOWED_SORTS THEN Status(400, "Unsupported sort order.")
    ELSE IF mode = "advanced" /\ ~AdvancedAvailable(key)
    THEN Status(503, "Advanced search is not available right now.")
    ELSE NoStatus

\* api_search, lines 168-197: a rejected request is answered at once, any
\* other goes on to semantic_search (search of search.py).
ApiSearchValidate ==
    /\ r_op = "api" /\ r_pc = "request"
    /\ LET response == ApiRejection(r_query, r_mode, r_sort, r_key)
       IN  IF response # NoStatus
           THEN r_pc' = "responded" /\ r_status' = response
           ELSE r_pc' = "start" /\ UNCHANGED r_status
    /\ UNCHANGED <<r_i, r_calls, r_result>>
    /\ RunStays /\ UNCHANGED notRunVars

\* api_search, lines 204-212: the handlers of the exceptions of
\* semantic_search.
ApiSearchFailed ==
    /\ r_op = "api" /\ r_pc = "failed"
    /\ r_pc' = "responded"
    /\ r_status' =
          IF r_result = "RuntimeError"
          THEN Status(503, "Search is temporarily unavailable. Please try again later.")
          ELSE Status(500, "Something went wrong while searching. Please try again.")
    /\ UNCHANGED <<r_i, r_calls, r_result>>
    /\ RunStays /\ UNCHANGED notRunVars

(***************************************************************************)
(*      embed_pending_chunks and chunk_documents on the chunk table         *)
(***************************************************************************)
MaxRuns == 2

\* The limit arguments of a run.
RunLimits == {1, 2}

\* ChunkForEmbedding(id, document_id, chunk_index, text): lines 375-383.
ChunkForEmbedding(r) ==
    [id |-> r.id, document_id |-> r.document_id, chunk_index |-> r.chunk_index,
     text |-> r.text]

\* ORDER BY id LIMIT k
RECURSIVE LowestIds(_, _)
LowestIds(S, k) ==
    IF k <= 0 \/ S = {} THEN <<>>
    ELSE LET r == CHOOSE x \in S : \A o \in S : x.id <= o.id
         IN  <<ChunkForEmbedding(r)>> \o LowestIds(S \ {r}, k - 1)

\* list_chunks_without_embeddings: lines 358-383.
ListChunksWithoutEmbeddings(table, limit) ==
    LowestIds({r \in table : r.embedding = NullVec}, limit)

\* len(list(zip(pending_chunks, batch.vectors)))
ZipLen == Min(Len(pending_chunks), Len(em_result.vectors))

\* embed_pending_chunks, lines 17-28, for a run with credentials: the
\* listing, the early return, and the call of embed_in_batches with the
\* texts of the pending chunks.
EmbedPendingList ==
    /\ e_pc \in {"idle", "done"} /\ e_runs < MaxRuns
    /\ e_runs' = e_runs + 1
    /\ pending_chunks' = ListChunksWithoutEmbeddings(rows, e_limit)
    /\ e_before' = rows /\ e_written' = {} /\ e_i' = 0 /\ total_updated' = 0
    /\ IF pending_chunks' = <<>>
       THEN /\ e_pc' = "done" /\ e_returned' = 0
            /\ UNCHANGED embedVars
       ELSE /\ e_pc' = "embedding" /\ e_returned' = NullInt
            /\ em_texts' = [i \in 1..Len(pending_chunks') |-> pending_chunks'[i].text]
            /\ em_pc' = "idle" /\ em_start' = 0 /\ em_vectors' = <<>>
            /\ em_dimensions' = 0 /\ em_result' = NoBatch /\ em_calls' = 0
            /\ UNCHANGED <<batch_size, provider>>
    /\ UNCHANGED e_limit
    /\ UNCHANGED <<storeVars, notEmbedRunVars>>

\* the handler going on with the vectors of the batches that answered
EmbedPendingEmbeddedPartial ==
    /\ e_pc = "embedding" /\ em_pc \in {"done", "raised"}
    /\ IF em_pc = "raised"
       THEN /\ em_result' = [model |-> EmbeddingModel, dimensions |-> em_dimensions,
                             vectors |-> em_vectors]
            /\ IF em_vectors = <<>>
               THEN e_pc' = "done" /\ e_returned' = 0
               ELSE e_pc' = "update" /\ UNCHANGED e_returned
       ELSE /\ UNCHANGED em_result
            /\ IF ZipLen = 0
               THEN e_pc' = "done" /\ e_returned' = 0
               ELSE e_pc' = "update" /\ UNCHANGED e_returned
    /\ UNCHANGED <<e_limit, pending_chunks, e_i, total_updated, e_runs, e_before,
                   e_written>>
    /\ UNCHANGED <<em_texts, batch_size, em_pc, em_start, em_vectors, em_dimensions,
                   em_calls, provider>>
    /\ UNCHANGED <<storeVars, notEmbedRunVars>>

\* embed_pending_chunks, lines 27-33: embed_in_batches has returned or
\* raised; an exception is logged and the run returns 0.
EmbedPendingEmbedded ==
    /\ e_pc = "embedding" /\ em_pc \in {"done", "raised"}
    /\ IF em_pc = "raised" \/ ZipLen = 0
       THEN e_pc' = "done" /\ e_returned' = 0
       ELSE e_pc' = "update" /\ UNCHANGED e_returned
    /\ UNCHANGED <<e_limit, pending_chunks, e_i, total_updated, e_runs, e_before,
                   e_written>>
    /\ UNCHANGED <<embedVars, storeVars, notEmbedRunVars>>

\* embed_pending_chunks, one iteration of lines 33-46 and the return of
\* lines 48-49 after the last one.
EmbedPendingUpdate ==
    /\ e_pc = "update"
    /\ LET chunk == pending_chunks[e_i + 1]
           vector == em_result.vectors[e_i + 1]
       IN  /\ rows' = UpdatedRows(rows, chunk.id, vector, em_result.model,
                                 em_result.dimensions, now)
           /\ last_op' = [op |-> "update", chunk_id |-> chunk.id, embedding |-> vector]
           /\ e_written' = e_written \cup {chunk.id}
    /\ now' = now + 1
    /\ search_result' = <<>>
    /\ total_updated' = total_updated + 1
    /\ e_i' = e_i + 1
    /\ IF e_i + 1 = ZipLen
       THEN e_pc' = "done" /\ e_returned' = total_updated + 1
       ELSE e_pc' = "update" /\ UNCHANGED e_returned
    /\ UNCHANGED <<e_limit, pending_chunks, e_runs, e_before, next_id>>
    /\ UNCHANGED <<embedVars, notEmbedRunVars>>

\* The chunk lists another process inserts.
RechunkLists == {<<"x">>, <<"y">>}

\* insert_document_chunks called by another process, at any moment.
Rechunk == \E d \in DocIds, cs \in RechunkLists : InsertDocumentChunks(d, cs)

\* insert_document_chunks called while no embed_pending_chunks run is
\* under way.
RechunkBetweenRuns ==
    /\ e_pc \in {"idle", "done"}
    /\ \E d \in DocIds, cs \in RechunkLists : InsertDocumentChunks(d, cs)

\* wh.documents.clean_text: NULL, the empty text, a text of whitespace
\* only, a text of one word and a text of two words.
CleanTexts == {NullStr, "", " ", "x", "x y"}

\* TextChunker.chunk_text of a clean text, under settings that make one
\* chunk of every word (max_tokens 1, overlap_tokens 0): vectorization.py
\* lines 52-80.
ChunkText(clean_text) ==
    CASE clean_text = "x" -> <<"x">>
      [] clean_text = "x y" -> <<"x", "y">>
      [] OTHER -> <<>>

RECURSIVE LowestDocs(_, _)
LowestDocs(S, k) ==
    IF k <= 0 \/ S = {} THEN <<>>
    ELSE LET d == CHOOSE x \in S : \A o \in S : x <= o
         IN  <<d>> \o LowestDocs(S \ {d}, k - 1)

\* list_documents_without_chunks: lines 299-326 (the ids of the documents
\* listed).
ListDocumentsWithoutChunks(documents, table, limit) ==
    LowestDocs({d \in DOMAIN documents :
                   /\ documents[d] # NullStr
                   /\ documents[d] # ""
                   /\ RowsOf(table, d) = {}}, limit)

\* chunk_documents, lines 18-29.
ChunkDocumentsList ==
    /\ c_pc = "idle"
    /\ c_documents' = ListDocumentsWithoutChunks(docs, rows, c_limit)
    /\ c_i' = 0 /\ c_processed' = 0
    /\ c_pc' = IF c_documents' = <<>> THEN "idle" ELSE "loop"
    /\ UNCHANGED <<docs, c_limit>>
    /\ UNCHANGED <<storeVars, notChunkRunVars>>

\* chunk_documents, one iteration of lines 30-43 and the return of lines
\* 45-46 after the last one.
ChunkDocumentsLoop ==
    /\ c_pc = "loop"
    /\ LET document == c_documents[c_i + 1]
           cs == ChunkText(docs[document])
       IN  IF cs = <<>>
           THEN UNCHANGED <<storeVars, c_processed>>
           ELSE /\ rows' = UpsertAll(rows, document, cs, Len(cs), next_id, now)
                /\ next_id' = next_id + Len(cs)
                /\ now' = now + 1
                /\ last_op' = [op |-> "insert", document_id |-> document,
                               chunks |-> cs, returned |-> Len(cs), overwrote |-> {}]
                /\ search_result' = <<>>
                /\ c_processed' = c_processed + 1
    /\ c_i' = c_i + 1
    /\ c_pc' = IF c_i + 1 = Len(c_documents) THEN "idle" ELSE "loop"
    /\ UNCHANGED <<docs, c_limit, c_documents>>
    /\ UNCHANGED notChunkRunVars

(***************************************************************************)
(*      The similarities shown: the web payload and the report header       *)
(***************************************************************************)
MaxScores == 3

\* Distances and similarities are counted in tenths: One is the 1.0 of
\* web/app.py line 60 and the 1 of search.py line 189.
One == 10

\* The cosine distances of the store (the <=> operator): 0 to 2.
Distances == {0, 5, 10, 15, 20}

\* _similarity: web/app.py lines 59-65.
Similarity(distance) ==
    LET similarity == One - distance
    IN  IF similarity < 0 THEN 0
        ELSE IF similarity > One THEN One
        ELSE similarity

\* max(values, default=0.0) and min(values, default=0.0)
SeqMax(values) ==
    IF values = <<>> THEN 0
    ELSE CHOOSE v \in {values[i] : i \in 1..Len(values)} :
            \A i \in 1..Len(values) : values[i] <= v
SeqMin(values) ==
    IF values = <<>> THEN 0
    ELSE CHOOSE v \in {values[i] : i \in 1..Len(values)} :
            \A i \in 1..Len(values) : v <= values[i]

NoHeader == [t |-> "none"]

\* api_search line 240 with _serialize_search_result lines 75 and 85:
\* the cosine_score of every result of the payload.
SerializeSearchResults ==
    /\ "web" \notin d_shown
    /\ d_shown' = d_shown \cup {"web"}
    /\ d_cosine_score' = [i \in 1..Len(d_scores) |-> Similarity(d_scores[i])]
    /\ UNCHANGED <<d_scores, d_header>>
    /\ UNCHANGED notSimVars

\* write_results_to_file lines 189-191 and 210-211: the two similarities
\* of the report header.
WriteSimilarityHeader ==
    /\ "file" \notin d_shown
    /\ d_shown' = d_shown \cup {"file"}
    /\ LET cosine_scores == [i \in 1..Len(d_scores) |-> One - d_scores[i]]
       IN  d_header' = [max_similarity |-> SeqMax(cosine_scores),
                        min_similarity |-> SeqMin(cosine_scores)]
    /\ UNCHANGED <<d_scores, d_cosine_score>>
    /\ UNCHANGED notSimVars

(***************************************************************************)
(*      The judgment counts of the report header                            *)
(***************************************************************************)
NoCounts == [t |-> "none"]

\* the counts with accepted and rejected taken from all the results
HeaderCountsUnfiltered(outputs) ==
    LET judged == {i \in 1..Len(outputs) : outputs[i].judgment # NoJudgment}
        valid_judgments == {i \in judged : outputs[i].judgment.valid_response}
        accepted == {i \in judged : outputs[i].judgment.response = S_YES}
        rejected == {i \in judged : outputs[i].judgment.response = S_NO}
    IN  [has_judgments |-> judged # {},
         valid |-> Cardinality(valid_judgments),
         accepted |-> Cardinality(accepted),
         rejected |-> Cardinality(rejected),
         results |-> Len(outputs)]

\* write_results_to_file lines 193-221: has_judgments, and the numbers of
\* "LLM valid responses: v/n", "LLM accepted (YES): a", "LLM rejected (NO): r".
HeaderCounts(outputs) ==
    LET judged == {i \in 1..Len(outputs) : outputs[i].judgment # NoJudgment}
        valid_judgments == {i \in judged : outputs[i].judgment.valid_response}
        accepted == {i \in valid_judgments : outputs[i].judgment.response = S_YES}
        rejected == {i \in valid_judgments : outputs[i].judgment.response = S_NO}
    IN  [has_judgments |-> judged # {},
         valid |-> Cardinality(valid_judgments),
         accepted |-> Cardinality(accepted),
         rejected |-> Cardinality(rejected),
         results |-> Len(outputs)]

\* The report of the results of one batch, each with the judgment
\* _parse_response gave it: write_results_to_file lines 193-221.
WriteJudgmentHeader ==
    /\ p_pc = "done" /\ h_pc = "idle"
    /\ h_counts' = HeaderCounts([i \in 1..Len(p_judgments) |->
                                    [chunk |-> i, judgment |-> p_judgments[i]]])
    /\ h_pc' = "done"
    /\ UNCHANGED notHeaderVars

(***************************************************************************)
(*                  Initial states and specifications                       *)
(***************************************************************************)
ChunkerIdle ==
    /\ ch_text = <<>> /\ max_tokens = 1 /\ overlap_tokens = 0
    /\ ch_obj = "none" /\ ch_pc = "idle"
    /\ token_ids = <<>> /\ start = 0 /\ chunks = <<>> /\ windows = <<>>

EmbedIdle ==
    /\ em_texts = <<>> /\ batch_size = 1 /\ provider = "conforming"
    /\ em_pc = "idle" /\ em_start = 0 /\ em_vectors = <<>> /\ em_dimensions = 0
    /\ em_result = NoBatch /\ em_calls = 0

StoreIdle ==
    /\ rows = {} /\ next_id = 1 /\ now = 0
    /\ last_op = [op |-> "none"] /\ search_result = <<>>

JudgeIdle ==
    /\ results = <<>> /\ j_batch_size = 1
    /\ j_pc = "idle" /\ j_start = 0 /\ enriched = <<>> /\ j_replies = <<>>
    /\ j_return = Pending

ParseIdle ==
    /\ p_text = <<>> /\ p_expected = 0 /\ p_pc = "idle" /\ p_judgments = <<>>

ExtractIdle ==
    /\ x_entry = PyNone /\ x_pc = "idle" /\ x_judgment = Judgment(<<>>, FALSE, PyNone)

SortIdle ==
    /\ s_results = <<>> /\ s_key = "relevance" /\ s_pc = "idle" /\ s_sorted = <<>>

CliIdle ==
    /\ w_advanced = FALSE /\ w_include_rejected = FALSE /\ w_to_file = "none"
    /\ w_outputs = <<>> /\ w_pc = "start" /\ to_write = <<>> /\ w_warned = FALSE

RunIdle ==
    /\ r_op = "chunk" /\ r_key = TRUE /\ r_max = 1 /\ r_overlap = 0
    /\ r_query = "q" /\ r_pending = 0 /\ r_pc = "start" /\ r_i = 0
    /\ r_calls = <<>> /\ r_result = "none"
    /\ r_mode = "simple" /\ r_sort = "relevance" /\ r_status = NoStatus

SimIdle ==
    /\ d_scores = <<>> /\ d_shown = {} /\ d_cosine_score = <<>>
    /\ d_header = NoHeader

HeaderIdle == h_pc = "idle" /\ h_counts = NoCounts

EmbedRunIdle ==
    /\ e_pc = "idle" /\ e_limit = 1 /\ pending_chunks = <<>> /\ e_i = 0
    /\ total_updated = 0 /\ e_returned = NullInt /\ e_runs = 0
    /\ e_before = {} /\ e_written = {}

ChunkRunIdle ==
    /\ docs = [d \in DocIds |-> NullStr] /\ c_pc = "idle" /\ c_limit = 1
    /\ c_documents = <<>> /\ c_i = 0 /\ c_processed = 0

MoreIdle == SimIdle /\ HeaderIdle /\ EmbedRunIdle /\ ChunkRunIdle

ExtraIdle ==
    ParseIdle /\ ExtractIdle /\ SortIdle /\ CliIdle /\ RunIdle /\ MoreIdle

\* ---- TextChunker: one construction and one chunk_text call per behaviour.
\* The scenario of the spec: 900 tokens, CHUNK_MAX_TOKENS 400,
\* CHUNK_OVERLAP_TOKENS 40 (config.py lines 31-32).
ScenarioText == [i \in 1..900 |-> "a"]

ChunkerStart ==
    /\ ch_obj = "none" /\ ch_pc = "idle"
    /\ token_ids = <<>> /\ start = 0 /\ chunks = <<>> /\ windows = <<>>
    /\ EmbedIdle /\ StoreIdle /\ JudgeIdle /\ ExtraIdle

\* Every text of at most MaxTextLen characters under every pair of
\* constructor arguments in -1..MaxTokens.
InitChunkerSmall ==
    /\ ch_text \in SeqsUpTo(Chars, MaxTextLen)
    /\ max_tokens \in (0 - 1)..MaxTokens
    /\ overlap_tokens \in (0 - 1)..MaxTokens
    /\ ChunkerStart

InitChunker ==
    \/ InitChunkerSmall
    \/ /\ ch_text = ScenarioText
       /\ max_tokens = 400
       /\ overlap_tokens = 40
       /\ ChunkerStart

NextChunker == TextChunkerInit \/ ChunkTextBegin \/ ChunkTextLoop

SpecChunker == InitChunker /\ [][NextChunker]_vars

\* chunk_text is sequential code: a call that can take a step takes it.
SpecChunkerFair == InitChunkerSmall /\ [][NextChunker]_vars /\ WF_vars(NextChunker)

\* ---- OpenAIEmbeddingClient: one embed_in_batches call per behaviour.
InitEmbed ==
    /\ em_texts \in SeqsUpTo(ChunkTexts, MaxTexts)
    /\ batch_size \in 1..MaxBatch
    /\ provider \in ProviderModes
    /\ em_pc = "idle" /\ em_start = 0 /\ em_vectors = <<>> /\ em_dimensions = 0
    /\ em_result = NoBatch /\ em_calls = 0
    /\ ChunkerIdle /\ StoreIdle /\ JudgeIdle /\ ExtraIdle

NextEmbed == EmbedInBatchesBegin \/ EmbedInBatchesLoop

SpecEmbed == InitEmbed /\ [][NextEmbed]_vars

\* ---- DocumentRepository: any sequence of calls on an empty chunk table.
InitStore == StoreIdle /\ ChunkerIdle /\ EmbedIdle /\ JudgeIdle /\ ExtraIdle

NextStore == Insert \/ Update \/ Search

SpecStore == InitStore /\ [][NextStore]_vars

\* ---- _parse_response: one call per behaviour.
InitParse ==
    /\ p_text \in ParseTexts
    /\ p_expected \in 0..MaxExpected
    /\ p_pc = "idle" /\ p_judgments = <<>>
    /\ ChunkerIdle /\ EmbedIdle /\ StoreIdle /\ JudgeIdle /\ ExtractIdle
    /\ SortIdle /\ CliIdle /\ RunIdle /\ MoreIdle

NextParse == ParseResponseCall \/ WriteJudgmentHeader

SpecParse == InitParse /\ [][NextParse]_vars

\* ---- embed_pending_chunks: up to MaxRuns runs on a table other
\* processes insert chunks into, between the runs (SpecEmbedRuns) or at any
\* moment (SpecEmbedRace).
InitEmbedRuns ==
    /\ e_limit \in RunLimits
    /\ batch_size \in {1, 2}
    /\ provider \in {"conforming", "drops_last", "raises_on_y"}
    /\ e_pc = "idle" /\ pending_chunks = <<>> /\ e_i = 0 /\ total_updated = 0
    /\ e_returned = NullInt /\ e_runs = 0 /\ e_before = {} /\ e_written = {}
    /\ em_texts = <<>> /\ em_pc = "idle" /\ em_start = 0 /\ em_vectors = <<>>
    /\ em_dimensions = 0 /\ em_result = NoBatch /\ em_calls = 0
    /\ StoreIdle /\ ChunkerIdle /\ JudgeIdle /\ ParseIdle /\ ExtractIdle /\ SortIdle
    /\ CliIdle /\ RunIdle /\ SimIdle /\ HeaderIdle /\ ChunkRunIdle

EmbedRunSteps ==
    \/ EmbedPendingList \/ EmbedInBatchesBegin \/ EmbedInBatchesLoop
    \/ EmbedPendingEmbedded \/ EmbedPendingUpdate

NextEmbedRuns == RechunkBetweenRuns \/ EmbedRunSteps

SpecEmbedRuns == InitEmbedRuns /\ [][NextEmbedRuns]_vars

NextEmbedRace == Rechunk \/ EmbedRunSteps

SpecEmbedRace == InitEmbedRuns /\ [][NextEmbedRace]_vars

\* ---- chunk_documents repeated for ever on a fixed set of documents.
InitChunkRuns ==
    /\ docs \in [DocIds -> CleanTexts]
    /\ c_limit \in RunLimits
    /\ c_pc = "idle" /\ c_documents = <<>> /\ c_i = 0 /\ c_processed = 0
    /\ StoreIdle /\ ChunkerIdle /\ EmbedIdle /\ JudgeIdle /\ ParseIdle /\ ExtractIdle
    /\ SortIdle /\ CliIdle /\ RunIdle /\ SimIdle /\ HeaderIdle /\ EmbedRunIdle

NextChunkRuns == ChunkDocumentsList \/ ChunkDocumentsLoop

SpecChunkRunsFair ==
    InitChunkRuns /\ [][NextChunkRuns]_vars /\ WF_vars(NextChunkRuns)

\* ---- The similarities shown for one list of results.
InitSim ==
    /\ d_scores \in SeqsUpTo(Distances, MaxScores)
    /\ d_shown = {} /\ d_cosine_score = <<>> /\ d_header = NoHeader
    /\ ChunkerIdle /\ EmbedIdle /\ StoreIdle /\ JudgeIdle /\ ParseIdle
    /\ ExtractIdle /\ SortIdle /\ CliIdle /\ RunIdle
    /\ HeaderIdle /\ EmbedRunIdle /\ ChunkRunIdle

NextSim == SerializeSearchResults \/ WriteSimilarityHeader

SpecSim == InitSim /\ [][NextSim]_vars

\* ---- _extract_judgment: one call per behaviour.
InitExtract ==
    /\ x_entry \in Entries
    /\ x_pc = "idle" /\ x_judgment = Judgment(<<>>, FALSE, PyNone)
    /\ ChunkerIdle /\ EmbedIdle /\ StoreIdle /\ JudgeIdle /\ ParseIdle
    /\ SortIdle /\ CliIdle /\ RunIdle /\ MoreIdle

NextExtract == ExtractJudgmentCall

SpecExtract == InitExtract /\ [][NextExtract]_vars

\* ---- _sort_results: one call per behaviour, on results whose publish
\* date is that of their document.
InitSort ==
    /\ \E dates \in [SortDocs -> PublishDates], ids \in SeqsUpTo(SortDocs, MaxResults) :
          s_results = [i \in 1..Len(ids) |->
                          [chunk_id |-> i, document_id |-> ids[i],
                           date_published |-> dates[ids[i]]]]
    /\ s_key \in ALLOWED_SORTS
    /\ s_pc = "idle" /\ s_sorted = <<>>
    /\ ChunkerIdle /\ EmbedIdle /\ StoreIdle /\ JudgeIdle /\ ParseIdle
    /\ ExtractIdle /\ CliIdle /\ RunIdle /\ MoreIdle

NextSort == SortResultsCall

SpecSort == InitSort /\ [][NextSort]_vars

\* ---- main: one report per behaviour. An advanced search carries a
\* judgment per result, a simple search none.
InitCli ==
    /\ w_advanced \in BOOLEAN
    /\ w_include_rejected \in BOOLEAN
    /\ w_to_file \in {"none", "name", "blank"}
    /\ \E js \in SeqsUpTo(Judgments, MaxOutputs) :
          w_outputs = [i \in 1..Len(js) |->
                          [chunk |-> i,
                           judgment |-> IF w_advanced THEN js[i] ELSE NoJudgment]]
    /\ w_pc = "start" /\ to_write = <<>> /\ w_warned = FALSE
    /\ ChunkerIdle /\ EmbedIdle /\ StoreIdle /\ JudgeIdle /\ ParseIdle
    /\ ExtractIdle /\ SortIdle /\ RunIdle /\ MoreIdle

NextCli == MainReport

SpecCli == InitCli /\ [][NextCli]_vars

\* ---- The runs: one run per behaviour, under every setting.
InitRuns ==
    /\ r_op \in {"chunk", "embed", "search", "scrape", "api"}
    /\ r_key \in BOOLEAN
    /\ r_max \in (0 - 1)..MaxTokens
    /\ r_overlap \in (0 - 1)..MaxTokens
    /\ r_query \in {"", "q", "long"}
    /\ r_pending \in 0..MaxPending
    /\ r_mode \in {"simple", "advanced", "other"}
    /\ r_sort \in {"relevance", "other"}
    /\ r_op \in {"search", "api"} => r_pending = 0
    /\ r_op \notin {"search", "api"} => r_query = "q" /\ r_mode = "simple"
    /\ r_op = "search" => r_query # "long" /\ r_mode # "other"
    /\ r_op # "api" => r_sort = "relevance"
    /\ r_pc = IF r_op = "api" THEN "request" ELSE "start"
    /\ r_i = 0 /\ r_calls = <<>> /\ r_result = "none" /\ r_status = NoStatus
    /\ ChunkerIdle /\ EmbedIdle /\ StoreIdle /\ JudgeIdle /\ ParseIdle
    /\ ExtractIdle /\ SortIdle /\ CliIdle /\ MoreIdle

NextRuns ==
    \/ ChunkRunConstruct \/ ChunkRunList \/ ChunkRunLoop
    \/ EmbedRunList \/ EmbedRunClient \/ EmbedRunEmbed \/ EmbedRunUpdate
    \/ SearchRunStart \/ SearchRunEmbed \/ MainSearchFailed
    \/ ScrapeRunList \/ ScrapeRunLoop
    \/ ApiSearchValidate \/ ApiSearchFailed

SpecRuns == InitRuns /\ [][NextRuns]_vars

\* ---- LLMRelevanceJudge: one judge call per behaviour.
InitJudge ==
    /\ \E n \in 0..MaxCands : results = [i \in 1..n |-> 10 + i]
    /\ j_batch_size \in 1..MaxJudgeBatch
    /\ j_pc = "idle" /\ j_start = 0 /\ enriched = <<>> /\ j_replies = <<>>
    /\ j_return = Pending
    /\ ChunkerIdle /\ EmbedIdle /\ StoreIdle /\ ExtraIdle

NextJudge == JudgeBegin \/ JudgeLoop \/ JudgeInvokeRaises

SpecJudge == InitJudge /\ [][NextJudge]_vars

(***************************************************************************)
(*                               Properties                                 *)
(***************************************************************************)

\* C1: when judge returns, it returns exactly len(results) entries and the
\* i-th entry carries the i-th candidate, whatever text the provider
\* replied for each batch (valid array, malformed, truncated, prose, empty,
\* fenced, array shorter or longer than the batch).
C1_JudgeParallelArray ==
    j_pc = "done" =>
        /\ Len(enriched) = Len(results)
        /\ \A i \in 1..Len(results) : enriched[i].chunk = results[i]

\* A call of 3 candidates in batches of 2 whose first reply is an array
\* shorter than the batch and whose second reply is truncated JSON.
C1_Witness ==
    /\ j_pc = "done"
    /\ Len(results) = 3
    /\ j_batch_size = 2
    /\ j_replies = << <<"[Y]">>, <<"[{">> >>

\* The candidates (1-based positions in results) of the b-th batch of judge.
BatchPositions(b) ==
    {i \in 1..Len(results) :
        (b - 1) * j_batch_size < i /\ i <= b * j_batch_size}

\* The reply is not the text of a JSON document, with or without fences.
Undecodable(content) ==
    LET body == TStrip(StripCodeFence(TStrip(content)))
    IN  content = NoContent \/ ~(Len(body) = 1 /\ body[1] \in JsonDocs)

\* Nothing is left of the reply once fences and whitespace are removed.
NothingLeft(content) ==
    content = NoContent \/ StripCodeFence(TStrip(content)) = <<>>

\* judge goes on to the next batch after every reply: the call has not
\* ended while candidates remain, and every batch replied to has its
\* judgments.
JudgeContinues ==
    j_pc \in {"loop", "done"} =>
        /\ (j_pc = "done") = (Len(j_replies) * j_batch_size >= Len(results))
        /\ Len(enriched) = Min(Len(results), Len(j_replies) * j_batch_size)

\* C11 as stated: whenever the reply of a batch cannot be decoded as JSON,
\* every candidate of the batch gets an invalid judgment whose response is
\* the raw reply text, and judge continues with the next batch.
C11_Original ==
    /\ JudgeContinues
    /\ \A b \in 1..Len(j_replies) :
          Undecodable(j_replies[b]) =>
              \A i \in BatchPositions(b) :
                  /\ enriched[i].judgment.valid_response = FALSE
                  /\ j_replies[b] # NoContent
                  /\ enriched[i].judgment.response = j_replies[b]

\* C11 amended: a reply that cannot be decoded gives every candidate of
\* its batch an invalid judgment; the response field holds the reply text
\* without its leading and trailing whitespace (fences kept) when something
\* is left of the reply after the fences are removed, and the marker
\* "empty response from model" when nothing is left; judge continues with
\* the next batch in both cases.
C11_Amended ==
    /\ JudgeContinues
    /\ \A b \in 1..Len(j_replies) :
          Undecodable(j_replies[b]) =>
              \A i \in BatchPositions(b) :
                  /\ enriched[i].judgment.valid_response = FALSE
                  /\ enriched[i].judgment.response =
                        IF NothingLeft(j_replies[b])
                        THEN <<"empty response from model">>
                        ELSE TStrip(j_replies[b])

\* Three candidates in batches of 2: the first reply is a fenced truncated
\* array, the second a valid array, and judge has returned.
C11_Witness ==
    /\ j_pc = "done"
    /\ Len(results) = 3
    /\ j_batch_size = 2
    /\ j_replies = << <<"FENCE", "json", "\n", "[{", "\n", "FENCE">>, <<"[Y]">> >>
    /\ enriched[3].judgment.valid_response

\* C16 as stated: once judge has ended, by returning or by the provider
\* call raising in some batch, the judgments parsed for the earlier batches
\* are returned to the caller with their candidates.
C16_EarlierBatchesReturned ==
    j_pc \in {"done", "raised"} =>
        \A i \in 1..Len(enriched) :
            /\ j_return.kind = "value"
            /\ i <= Len(j_return.value)
            /\ j_return.value[i] = enriched[i]

\* A verdict string without the whitespace around it.
RECURSIVE Core(_)
Core(v) ==
    IF v # <<>> /\ v[1] = " " THEN Core(Tail(v))
    ELSE IF v # <<>> /\ v[Len(v)] = " " THEN Core(SubSeq(v, 1, Len(v) - 1))
    ELSE v

IsYes(w) == Len(w) = 3 /\ w[1] \in {"y", "Y"} /\ w[2] \in {"e", "E"} /\ w[3] \in {"s", "S"}
IsNo(w) == Len(w) = 2 /\ w[1] \in {"n", "N"} /\ w[2] \in {"o", "O"}

\* C12: for an entry {"answer": v}, _extract_judgment returns a valid
\* judgment with response YES (NO) when v is "yes" ("no") in any letter
\* case, with or without whitespace around it, and for every other string
\* an invalid judgment whose response is v as written (without the
\* whitespace around it).
C12_VerdictNormalized ==
    (x_pc = "done" /\ x_entry.t = "dict" /\ DOMAIN x_entry.d = {"answer"}
        /\ x_entry.d.answer.t = "str") =>
        LET w == Core(x_entry.d.answer.s)
        IN  CASE IsYes(w) -> x_judgment.valid_response /\ x_judgment.response = <<"Y", "E", "S">>
              [] IsNo(w) -> x_judgment.valid_response /\ x_judgment.response = <<"N", "O">>
              [] OTHER -> ~x_judgment.valid_response /\ x_judgment.response = w

\* The entry {"answer": " yEs"} has been judged valid.
C12_Witness ==
    /\ x_pc = "done"
    /\ x_entry = PyDict([answer |-> PyStr(<<" ", "y", "E", "s">>)])
    /\ x_judgment.valid_response

\* The array documents and their entries, as written in the reply.
ArrayDocs == {"[]", "[Y]", "[y,N]", "[Y,m,d]", "[s,null,1,Y]", "[Y,N,Y]"}
ArrayEntries(doc) ==
    CASE doc = "[]" -> <<>>
      [] doc = "[Y]" -> <<E_YES>>
      [] doc = "[y,N]" -> <<E_yes, E_No>>
      [] doc = "[Y,m,d]" -> <<E_YES, E_maybe, E_decision>>
      [] doc = "[s,null,1,Y]" -> <<E_bare, PyNone, PyNum(1), E_YES>>
      [] doc = "[Y,N,Y]" -> <<E_YES, E_No, E_YES>>

MissingEntry == [response |-> <<>>, valid_response |-> FALSE,
                 explanation |-> PyStr(<<"missing entry">>)]

\* The judgments the claims give a batch of n candidates for an array.
ExpectedJudgments(entries, n) ==
    [i \in 1..n |-> IF i <= Len(entries) THEN ExtractJudgment(entries[i])
                    ELSE MissingEntry]

\* C13: for a reply that is an array of m entries and a batch of n
\* candidates, _parse_response returns n judgments; the first min(m, n)
\* come from the array entries in order, every later one is the invalid
\* judgment with explanation "missing entry", and the entries of the array
\* after the n-th are ignored.
C13_MissingEntries ==
    (p_pc = "done" /\ Len(p_text) = 1 /\ p_text[1] \in ArrayDocs) =>
        p_judgments = ExpectedJudgments(ArrayEntries(p_text[1]), p_expected)

\* An array of one entry for a batch of three: one valid judgment and two
\* missing entries.
C13_Witness ==
    /\ p_pc = "done"
    /\ p_text = <<"[Y]">>
    /\ p_expected = 3
    /\ p_judgments[1].valid_response
    /\ p_judgments[3] = MissingEntry

\* The object documents and the entries the claim reads from them.
ObjectDocs == {"{answers:[Y,N]}", "{results:[N]}", "{answer:YES}",
               "{answers:1,results:[y]}", "{answers:[N],results:[Y]}"}
ObjectEntries(doc) ==
    CASE doc = "{answers:[Y,N]}" -> <<E_YES, E_No>>
      [] doc = "{results:[N]}" -> <<E_No>>
      [] doc = "{answer:YES}" -> <<E_YES>>
      [] doc = "{answers:1,results:[y]}" -> <<E_yes>>
      [] doc = "{answers:[N],results:[Y]}" -> <<E_No>>

\* C14: for a reply that is a JSON object, the entries are the list under
\* "answers" if that is a list, else the list under "results" if that is
\* a list, else the object itself as the entry of index 0 (every other
\* index then gets the missing-entry judgment).
C14_ObjectPayload ==
    (p_pc = "done" /\ Len(p_text) = 1 /\ p_text[1] \in ObjectDocs) =>
        p_judgments = ExpectedJudgments(ObjectEntries(p_text[1]), p_expected)

\* An object whose "answers" is not a list and whose "results" is one,
\* parsed for a batch of two.
C14_Witness ==
    /\ p_pc = "done"
    /\ p_text = <<"{answers:1,results:[y]}">>
    /\ p_expected = 2
    /\ p_judgments[1].valid_response
    /\ p_judgments[2] = MissingEntry

\* C15 as stated: a reply that is an array between code-fence markers,
\* with or without a language tag, on one line or on several, gets the
\* judgments of the same array without the fences; a fenced array of three
\* YES/NO objects for a batch of three gives three valid judgments.
C15_FencedSameAsBare ==
    p_pc = "done" =>
        \A doc \in ArrayDocs :
            p_text \in FencedForms(doc) =>
                /\ p_judgments = ExpectedJudgments(ArrayEntries(doc), p_expected)
                /\ (doc = "[Y,N,Y]" /\ p_expected = 3) =>
                       \A i \in 1..3 : p_judgments[i].valid_response

ChunkerWindows ==
    IF windows = <<>>
    THEN {<<0, Len(token_ids)>>}
    ELSE {windows[j] : j \in 1..Len(windows)}

\* C2: chunk_text terminates for every accepted configuration (the window
\* start strictly grows and stays below the token count while the loop
\* runs, and the call reaches its return), and every chunk returned is the
\* stripped decoding of a window of at most max_tokens tokens.
C2_TerminatesBounded ==
    /\ [](ch_pc \in {"loop", "done"} =>
            \A i \in 1..Len(chunks) :
                \E w \in ChunkerWindows :
                    /\ w[2] - w[1] <= max_tokens
                    /\ 0 <= w[1] /\ w[1] < w[2] /\ w[2] <= Len(token_ids)
                    /\ chunks[i] = Strip(Decode(Slice(token_ids, w[1], w[2]))))
    /\ [][(ch_pc = "loop" /\ ch_pc' = "loop") =>
            (start' > start /\ start' < Len(token_ids))]_vars
    /\ <>(ch_obj = "error" \/ ch_pc = "done")

\* A finished call that took at least three overlapping windows.
C2_Witness ==
    /\ ch_pc = "done"
    /\ Len(windows) >= 3
    /\ overlap_tokens > 0

\* C3: for a text of T > max_tokens tokens, window j (0-based) is
\* [j*(max_tokens - overlap_tokens), min(j*(max_tokens - overlap_tokens) +
\* max_tokens, T)); each later window starts overlap_tokens before the end
\* of the previous one; the last window is the first whose end is T. For
\* T = 900, max_tokens = 400, overlap_tokens = 40 the windows are [0,400),
\* [360,760), [720,900), and no chunk is empty.
C3_Windows ==
    (ch_pc = "done" /\ Len(token_ids) > max_tokens) =>
        LET T == Len(token_ids)
            step == max_tokens - overlap_tokens
            n == Len(windows)
        IN  /\ n >= 1
            /\ \A j \in 1..n :
                 windows[j] = <<(j - 1) * step, Min((j - 1) * step + max_tokens, T)>>
            /\ \A j \in 2..n : windows[j][1] = windows[j - 1][2] - overlap_tokens
            /\ windows[n][2] = T
            /\ \A j \in 1..(n - 1) : windows[j][2] < T
            /\ \A i \in 1..Len(chunks) : chunks[i] # <<>>
            /\ (T = 900 /\ max_tokens = 400 /\ overlap_tokens = 40) =>
                 /\ windows = << <<0, 400>>, <<360, 760>>, <<720, 900>> >>
                 /\ Len(chunks) = 3

\* The scenario of the spec, finished.
C3_Witness ==
    /\ ch_pc = "done"
    /\ Len(token_ids) = 900 /\ max_tokens = 400 /\ overlap_tokens = 40
    /\ Len(windows) = 3

\* C4 as claimed: for every text whose token count is <= max_tokens,
\* chunk_text returns exactly one chunk, the input with leading and
\* trailing whitespace removed.
C4_Original ==
    (ch_pc = "done" /\ Len(Encode(ch_text)) <= max_tokens) =>
        chunks = <<RStrip(LStrip(ch_text))>>

\* C4 amended: a text that is empty or whitespace only returns no chunk;
\* every other text whose stripped form has at most max_tokens tokens
\* returns exactly one chunk, the input with leading and trailing
\* whitespace removed.
C4_Amended ==
    ch_pc = "done" =>
        LET trimmed == RStrip(LStrip(ch_text))
        IN  /\ trimmed = <<>> => chunks = <<>>
            /\ (trimmed # <<>> /\ Len(Encode(trimmed)) <= max_tokens) =>
                 chunks = <<trimmed>>

\* A text with whitespace on both sides that fits one chunk.
C4_Witness ==
    /\ ch_pc = "done"
    /\ ch_text = <<" ", "a", "b", " ">>
    /\ max_tokens = 2
    /\ chunks = << <<"a", "b">> >>

\* The tokens of the chunks, the first whole and every later one without
\* its first overlap_tokens tokens.
RECURSIVE NonOverlapTokens(_, _)
NonOverlapTokens(cs, first) ==
    IF cs = <<>> THEN <<>>
    ELSE LET toks == Encode(Head(cs))
             kept == IF first THEN toks
                     ELSE SubSeq(toks, overlap_tokens + 1, Len(toks))
         IN  kept \o NonOverlapTokens(Tail(cs), FALSE)

\* C5 as claimed: for a text of more than max_tokens tokens, the first
\* chunk whole followed by every later chunk without its first
\* overlap_tokens tokens is the token sequence of the text.
C5_Original ==
    (ch_pc = "done" /\ Len(token_ids) > max_tokens) =>
        NonOverlapTokens(chunks, TRUE) = token_ids

\* C5 amended: for a text of more than max_tokens tokens, the windows
\* chunk_text takes reconstruct the token sequence (the first window whole,
\* every later window without its first overlap_tokens tokens); the chunks
\* returned are these windows decoded and stripped of leading and trailing
\* whitespace, in order, without the windows that decode to whitespace
\* only.
C5_Amended ==
    (ch_pc = "done" /\ Len(token_ids) > max_tokens) =>
        LET n == Len(windows)
            part(j) == Slice(token_ids,
                             IF j = 1 THEN windows[j][1]
                             ELSE windows[j][1] + overlap_tokens,
                             windows[j][2])
            decoded == [j \in 1..n |->
                          Strip(Decode(Slice(token_ids, windows[j][1], windows[j][2])))]
        IN  /\ Concat([j \in 1..n |-> part(j)]) = token_ids
            /\ chunks = SelectSeq(decoded, LAMBDA c : c # <<>>)

\* A finished call with overlap in which one window decoded to whitespace
\* only and was dropped.
C5_Witness ==
    /\ ch_pc = "done"
    /\ Len(token_ids) > max_tokens
    /\ overlap_tokens > 0
    /\ Len(chunks) < Len(windows)

\* C6: the constructor raises exactly when max_tokens <= 0,
\* overlap_tokens < 0 or overlap_tokens >= max_tokens, and succeeds for
\* every other pair; chunk_text never runs on a rejected configuration.
C6_ConstructorRejects ==
    LET bad == max_tokens <= 0 \/ overlap_tokens < 0 \/ overlap_tokens >= max_tokens
    IN  /\ ch_obj = "error" => bad
        /\ ch_obj = "ok" => ~bad
        /\ (ch_pc # "idle" \/ chunks # <<>> \/ windows # <<>>) => (ch_obj = "ok" /\ ~bad)

\* A rejected configuration with overlap_tokens = max_tokens > 0.
C6_Witness ==
    /\ ch_obj = "error"
    /\ max_tokens > 0
    /\ overlap_tokens = max_tokens

\* C7: for non-empty texts and every batch_size >= 1, with a provider that
\* answers every call with one vector per input in input order,
\* embed_in_batches returns as many vectors as texts, the i-th being the
\* provider's vector for texts[i].
C7_EmbedOrder ==
    (em_pc = "done" /\ em_texts # <<>> /\ provider = "conforming") =>
        /\ Len(em_result.vectors) = Len(em_texts)
        /\ \A i \in 1..Len(em_texts) :
             em_result.vectors[i] = ProviderVector(em_texts[i])

\* Four texts, not all the same, embedded in batches of three.
C7_Witness ==
    /\ em_pc = "done"
    /\ provider = "conforming"
    /\ Len(em_texts) = 4
    /\ batch_size = 3
    /\ em_texts[3] # em_texts[4]
    /\ Len(em_result.vectors) = 4

\* C17 as stated: with sort key relevance _sort_results returns its input
\* unchanged; with date_asc or date_desc it returns a permutation of the
\* input in which the dated results are ordered by publish date in the
\* requested direction, every result without a publish date comes after
\* every result with one, and results with equal dates are ordered by
\* document id.
C17_SortPolicy ==
    s_pc = "done" =>
        IF s_key = "relevance" THEN s_sorted = s_results
        ELSE LET n == Len(s_sorted)
                 Pairs == {<<i, j>> \in (1..n) \X (1..n) : i < j}
                 SameDate == {q \in Pairs :
                     s_sorted[q[1]].date_published = s_sorted[q[2]].date_published}
             IN  /\ n = Len(s_results)
                 /\ {s_sorted[i] : i \in 1..n} = {s_results[i] : i \in 1..n}
                 /\ \A q \in Pairs :
                       LET a == s_sorted[q[1]]
                           b == s_sorted[q[2]]
                       IN  /\ ~(a.date_published = NoDate /\ b.date_published # NoDate)
                           /\ (a.date_published # NoDate /\ b.date_published # NoDate) =>
                                 IF s_key = "date_asc"
                                 THEN a.date_published <= b.date_published
                                 ELSE a.date_published >= b.date_published
                 /\ \/ \A q \in SameDate :
                          s_sorted[q[1]].document_id <= s_sorted[q[2]].document_id
                    \/ \A q \in SameDate :
                          s_sorted[q[1]].document_id >= s_sorted[q[2]].document_id

IsAccepted(o) == o.judgment.valid_response /\ o.judgment.response = <<"Y", "E", "S">>
IsRejected(o) == o.judgment.valid_response /\ o.judgment.response = <<"N", "O">>

\* C18: when main writes an advanced search to a file, the written list is
\* the YES results (followed by the NO results when include_rejected is
\* set) if some result is YES; the NO results if none is YES,
\* include_rejected is set and some result is NO; and otherwise all the
\* results, with a warning logged. The list is never empty, and results
\* with an invalid verdict are written in the last case only.
C18_WrittenSet ==
    (w_pc = "written" /\ w_advanced) =>
        LET yes == SelectSeq(w_outputs, IsAccepted)
            no == SelectSeq(w_outputs, IsRejected)
            fallback == yes = <<>> /\ ~(w_include_rejected /\ no # <<>>)
        IN  /\ yes # <<>> =>
                  to_write = IF w_include_rejected THEN yes \o no ELSE yes
            /\ (yes = <<>> /\ w_include_rejected /\ no # <<>>) => to_write = no
            /\ fallback => (to_write = w_outputs /\ w_warned)
            /\ to_write # <<>>
            /\ (\E i \in 1..Len(to_write) : ~to_write[i].judgment.valid_response)
                  => fallback

\* An advanced search of a NO and an invalid result written without
\* include_rejected: both are written and the warning is logged.
C18_Witness ==
    /\ w_pc = "written"
    /\ w_advanced
    /\ ~w_include_rejected
    /\ Len(w_outputs) = 2
    /\ w_outputs[1].judgment = J_NO
    /\ w_outputs[2].judgment = J_maybe
    /\ to_write = w_outputs
    /\ w_warned

\* The configuration the run reads is invalid: chunk_documents reads the
\* chunking parameters, embed_pending_chunks and search the credentials.
InvalidConfiguration ==
    \/ r_op = "chunk" /\ (r_max <= 0 \/ r_overlap < 0 \/ r_overlap >= r_max)
    \/ r_op \in {"embed", "search"} /\ ~r_key

\* C20 as stated: under an invalid configuration a run issues no store
\* query and no network call, and it ends by failing.
C20_FailFast ==
    InvalidConfiguration =>
        /\ r_calls = <<>>
        /\ r_pc = "done" => r_result # "returned"

\* The store writes that persist one item of a run.
ItemWrites ==
    {"store:insert_document_chunks", "store:update_chunk_embedding",
     "store:mark_scraped"}

\* C21 as stated: the failure of the store write of one item never ends
\* the run; the item is marked and skipped and the run goes on with the
\* remaining items, so no run ends with the exception of such a write.
C21_StoreErrorSkipsItem ==
    ~ /\ r_pc = "failed" /\ r_result = "StoreError"
      /\ r_calls # <<>>
      /\ r_calls[Len(r_calls)] \in ItemWrites

\* C22 as stated: a search with a non-empty query and credentials, whose
\* provider call answers, on a store without any embedded chunk ends by
\* returning its (empty) result list: it does not end with an exception.
C22_NoMatchesNotError ==
    ( /\ r_op = "search" /\ r_query # "" /\ r_key
      /\ \A r \in rows : r.embedding = NullVec
      /\ r_pc \in {"done", "failed", "exit"}
      /\ r_result # "ProviderError" )
        => r_pc = "done" /\ r_result = "returned"

\* C23: without credentials, a well-formed api_search request of mode
\* advanced is answered 503 "Advanced search is not available right now.",
\* an advanced search of main with a query ends with exit status 1 on the
\* RuntimeError of the missing key, and neither issues any store query or
\* network call or produces results.
C23_AdvancedUnavailable ==
    (r_mode = "advanced" /\ ~r_key) =>
        /\ r_calls = <<>>
        /\ r_pc # "done"
        /\ ( /\ r_op = "api" /\ r_pc # "request"
              /\ QueryLength(r_query) \in 1..MAX_QUERY_LENGTH
              /\ r_sort \in ALLOWED_SORTS )
              => /\ r_pc = "responded"
                 /\ r_status = Status(503, "Advanced search is not available right now.")
        /\ (r_op = "search" /\ r_query # "" /\ r_pc = "exit")
              => r_result = "RuntimeError" /\ r_status = Status(1, "Search failed")

C23_Witness ==
    /\ r_op = "api" /\ r_mode = "advanced" /\ ~r_key
    /\ r_query = "q" /\ r_sort = "relevance"
    /\ r_pc = "responded" /\ r_status.code = 503

\* v is 1 - distance clamped to [0, 1].
IsClampedSimilarity(v, distance) ==
    \/ One - distance < 0 /\ v = 0
    \/ One - distance > One /\ v = One
    \/ One - distance \in 0..One /\ v = One - distance

\* C24 as stated: every cosine_score of the web payload is 1 - distance of
\* its result clamped to [0, 1], and the Max and the Min cosine similarity
\* of the report header are 1 - distance, clamped to [0, 1], of the nearest
\* and of the farthest result.
C24_SimilarityClamped ==
    /\ "web" \in d_shown =>
          \A i \in 1..Len(d_scores) : IsClampedSimilarity(d_cosine_score[i], d_scores[i])
    /\ ("file" \in d_shown /\ d_scores # <<>>) =>
          /\ \E i \in 1..Len(d_scores) :
                /\ IsClampedSimilarity(d_header.max_similarity, d_scores[i])
                /\ \A j \in 1..Len(d_scores) : d_scores[i] <= d_scores[j]
          /\ \E i \in 1..Len(d_scores) :
                /\ IsClampedSimilarity(d_header.min_similarity, d_scores[i])
                /\ \A j \in 1..Len(d_scores) : d_scores[j] <= d_scores[i]

\* The provider call of some batch of the run failed and the run is over.
FailedRun == e_pc = "done" /\ pending_chunks # <<>> /\ em_pc = "raised"

\* C25: in an embed_pending_chunks run no row is written while the batches
\* are requested; once the provider call of a batch has raised, the run is
\* over, it has updated no chunk and returned 0, every batch was requested
\* once (no retry), and the table is as the run's listing read it; the
\* next run on the unchanged table lists the same pending chunks.
C25_FailedRunWritesNothing ==
    /\ [](e_pc = "embedding" => rows = e_before /\ e_written = {})
    /\ []((em_pc = "raised" /\ e_pc # "embedding") =>
             /\ e_pc = "done" /\ e_returned = 0 /\ e_written = {}
             /\ em_calls = (em_start \div batch_size) + 1)
    /\ [][ /\ (e_pc = "embedding" /\ em_pc = "raised" /\ e_pc' = "done")
               => rows' = e_before /\ em_calls' = em_calls
           /\ (FailedRun /\ rows = e_before /\ e_pc' = "embedding")
               => pending_chunks' = pending_chunks ]_vars

C25_Witness ==
    /\ FailedRun /\ e_runs = 2 /\ em_calls = 2
    /\ Len(pending_chunks) = 2 /\ rows = e_before

\* C26 as stated: whatever the interleaving of the steps of an
\* embed_pending_chunks run with insert_document_chunks calls, and with a
\* provider that answers every text with its vector, every embedding in
\* the table is the vector of the text stored in the same row.
C26_NoStaleEmbedding ==
    provider = "conforming" =>
        \A r \in rows :
            r.embedding # NullVec => r.embedding = VectorLiteral(ProviderVector(r.text))

\* C27 as stated: when chunk_documents(limit) is run again and again,
\* every document whose clean text yields at least one chunk eventually
\* has chunks, whatever documents without chunkable text precede it.
C27_EveryChunkableChunked ==
    <>(\A d \in DocIds : ChunkText(docs[d]) # <<>> => RowsOf(rows, d) # {})

\* A step that is a call of insert_document_chunks.
IsInsertStep == now' = now + 1 /\ last_op'.op = "insert"

\* The three embedding columns of a row are all NULL.
NoEmbedding(r) ==
    /\ r.embedding = NullVec
    /\ r.embedding_model = NullStr
    /\ r.embedding_dimensions = NullInt

\* C28: after any sequence of insert_document_chunks and
\* update_chunk_embedding calls, the embedding, embedding_model and
\* embedding_dimensions of every row are all NULL or all set, the chunk
\* indices of every document are 0..N-1 with one row each, and every row an
\* insert_document_chunks call has written has the three columns NULL.
C28_RowInvariants ==
    /\ [](\A r \in rows :
            \/ NoEmbedding(r)
            \/ /\ r.embedding # NullVec
               /\ r.embedding_model # NullStr
               /\ r.embedding_dimensions # NullInt)
    /\ [](\A d \in DocIds :
            /\ {r.chunk_index : r \in RowsOf(rows, d)}
                  = 0..(Cardinality(RowsOf(rows, d)) - 1)
            /\ \A r1, r2 \in RowsOf(rows, d) :
                  r1.chunk_index = r2.chunk_index => r1 = r2)
    /\ [][IsInsertStep =>
            \A r \in RowsOf(rows', last_op'.document_id) :
                r.chunk_index < Len(last_op'.chunks) => NoEmbedding(r)]_vars

C28_Witness ==
    /\ last_op.op = "insert"
    /\ \E r \in rows : r.embedding # NullVec
    /\ \E d \in DocIds : Cardinality(RowsOf(rows, d)) = 2

\* The counts of a written report header add up.
HeaderAddsUp ==
    (h_pc = "done" /\ h_counts.has_judgments) =>
        /\ h_counts.valid = h_counts.accepted + h_counts.rejected
        /\ h_counts.valid <= h_counts.results

\* The reply decoded as JSON: its judgments come from _extract_judgment.
ReplyDecoded ==
    /\ StripCodeFence(p_text) # <<>>
    /\ JsonLoads(StripCodeFence(p_text)) # JsonError

PendingBefore == {r \in e_before : r.embedding = NullVec}

\* The ids the run selected.
SelectedIds == {pending_chunks[i].id : i \in 1..Len(pending_chunks)}

\* C30 as stated: when an embed_pending_chunks run ends without a failure
\* of the provider, it has selected the chunks without embedding of lowest
\* id, up to limit of them and in the order of their ids; it has updated
\* every one of them and returned their number; every one of them carries
\* the vector of its own text; and every row that had an embedding when
\* the run listed is as it was.
C30_RunUpdatesSelected ==
    [][(e_pc # "done" /\ e_pc' = "done" /\ ~(pending_chunks' # <<>> /\ em_pc' = "raised")) =>
          /\ Len(pending_chunks') = Min(e_limit, Cardinality(PendingBefore'))
          /\ SelectedIds' \subseteq {r.id : r \in PendingBefore'}
          /\ \A i \in 1..Len(pending_chunks') :
                /\ \A j \in 1..Len(pending_chunks') :
                      i < j => pending_chunks'[i].id < pending_chunks'[j].id
                /\ \A r \in PendingBefore' :
                      r.id \notin SelectedIds' => pending_chunks'[i].id < r.id
                /\ \E r \in PendingBefore' :
                      r.id = pending_chunks'[i].id /\ r.text = pending_chunks'[i].text
          /\ e_written' = SelectedIds'
          /\ e_returned' = Len(pending_chunks')
          /\ \A i \in 1..Len(pending_chunks') :
                \E r \in rows' :
                    /\ r.id = pending_chunks'[i].id
                    /\ r.embedding = VectorLiteral(ProviderVector(pending_chunks'[i].text))
          /\ \A r \in e_before' : r.embedding # NullVec => r \in rows'
       ]_vars

\* C19 as stated: embed_in_batches returns a batch only when every provider
\* call answered with as many vectors as input texts, all of one
\* dimension; the batch then has one vector per text and dimensions is the
\* length of every vector in it. (A mismatch ends the call with an
\* exception instead.)
C19_ProtocolErrorsSurfaced ==
    (em_pc = "done" /\ em_texts # <<>>) =>
        /\ Len(em_result.vectors) = Len(em_texts)
        /\ \A i \in 1..Len(em_result.vectors) :
              Len(em_result.vectors[i]) = em_result.dimensions

EmbeddingCleared(r) ==
    /\ r.embedding = NullVec
    /\ r.embedding_model = NullStr
    /\ r.embedding_dimensions = NullInt

\* C8 as claimed: after insert_document_chunks is called again (with at
\* least one chunk) for a document that has chunks with embeddings, every
\* chunk row stored for that document has a null embedding, a null
\* embedding_model and a null embedding_dimensions.
C8_RechunkClearsAll ==
    [][(/\ IsInsertStep
        /\ last_op'.chunks # <<>>
        /\ \E r \in rows : r.document_id = last_op'.document_id /\ r.embedding # NullVec)
       => \A r \in rows' :
             r.document_id = last_op'.document_id => EmbeddingCleared(r)]_vars

\* A row without the clock column updated_at.
Visible(r) ==
    [id |-> r.id, document_id |-> r.document_id, chunk_index |-> r.chunk_index,
     text |-> r.text, embedding |-> r.embedding,
     embedding_model |-> r.embedding_model,
     embedding_dimensions |-> r.embedding_dimensions,
     embedding_updated_at |-> r.embedding_updated_at]

\* C9: insert_document_chunks(d, chunks) leaves exactly one row per
\* (d, index) for every index of chunks, with the new text and with
\* embedding, embedding_model and embedding_dimensions null; a row that had
\* the key before keeps its id (no second row); rows of other keys are
\* untouched; and a second call with the same arguments leaves the rows of
\* the first (all columns but the clock column updated_at).
C9_UpsertIdempotent ==
    [][IsInsertStep =>
        LET d == last_op'.document_id
            cs == last_op'.chunks
        IN  /\ \A i \in 1..Len(cs) :
                 /\ Cardinality({r \in rows' : r.document_id = d /\ r.chunk_index = i - 1}) = 1
                 /\ \A r \in rows' :
                      (r.document_id = d /\ r.chunk_index = i - 1) =>
                          /\ r.text = cs[i]
                          /\ EmbeddingCleared(r)
            /\ \A r \in rows :
                 IF r.document_id = d /\ r.chunk_index < Len(cs)
                 THEN \E n \in rows' : n.id = r.id /\ n.document_id = d
                                       /\ n.chunk_index = r.chunk_index
                 ELSE r \in rows'
            /\ Cardinality(rows') =
                 Cardinality(rows) + Cardinality({i \in 1..Len(cs) :
                     ~\E r \in rows : r.document_id = d /\ r.chunk_index = i - 1})
            /\ (/\ last_op.op = "insert"
                /\ last_op.document_id = d
                /\ last_op.chunks = cs)
               => {Visible(r) : r \in rows'} = {Visible(r) : r \in rows}]_vars

\* An insert that wrote a new text over a row that had an embedding.
C9_Witness ==
    /\ last_op.op = "insert"
    /\ last_op.overwrote # {}
    /\ \E r \in rows :
         /\ r.id \in last_op.overwrote
         /\ r.text = "y"
         /\ r.embedding = NullVec

\* C10: search_chunks_by_embedding(embedding, limit=k) returns only chunks
\* whose embedding is not null, each once, with score the distance to the
\* query; it returns min(k, number of embedded chunks) results (none for
\* k <= 0), in ascending distance, and no chunk left out is closer than a
\* chunk returned; with k = 5 and 2 embedded chunks it returns exactly 2.
C10_Nearest ==
    last_op.op = "search" =>
        LET k == last_op.limit
            q == last_op.embedding
            embedded == {r \in rows : r.embedding # NullVec}
            n == Len(search_result)
            rowOf(i) == CHOOSE r \in rows : r.id = search_result[i].chunk_id
        IN  /\ \A i \in 1..n :
                 /\ \E r \in embedded : r.id = search_result[i].chunk_id
                 /\ search_result[i].score = 1 - Dot(rowOf(i).embedding, q)
                 /\ search_result[i].text = rowOf(i).text
            /\ \A i, j \in 1..n :
                 /\ i < j => search_result[i].score <= search_result[j].score
                 /\ i # j => search_result[i].chunk_id # search_result[j].chunk_id
            /\ n = IF k <= 0 THEN 0 ELSE Min(k, Cardinality(embedded))
            /\ \A r \in embedded :
                 (\A i \in 1..n : search_result[i].chunk_id # r.id) =>
                     \A i \in 1..n : search_result[i].score <= 1 - Dot(r.embedding, q)
            /\ (k = 5 /\ Cardinality(embedded) = 2) => n = 2

\* k = 5 on a store with two embedded chunks at different distances.
C10_Witness ==
    /\ last_op.op = "search"
    /\ last_op.limit = 5
    /\ Cardinality({r \in rows : r.embedding # NullVec}) = 2
    /\ Len(search_result) = 2
    /\ search_result[1].score < search_result[2].score

====
